---------------------------- MODULE Spec2Model ----------------------------
(***************************************************************************)
(* Posty: mail-item storage, the REST routes in front of it, the document  *)
(* analyzer with its filename fallback classifier, the notification        *)
(* service and e-mail registration, as state machines translated from the  *)
(* TypeScript sources.                                                      *)
(*                                                                         *)
(* Text is a sequence of chunks (a rope): a file name is a sequence of     *)
(* one-character chunks, so that substring search, lower-casing and the    *)
(* extension strip are computed character by character; the fixed          *)
(* sentences of the templates are single chunks.                           *)
(***************************************************************************)
EXTENDS Integers, Sequences, FiniteSets, TLC

VARIABLES
    \* ---- fallback classifier (SpecFallback) ----
    fileName,       \* the original file name handed to the classifier
    today,          \* the calendar date of the invocation, [y, m, d]
    errors,         \* the error passed to each invocation so far
    results,        \* the result of each invocation so far
    uploaded,       \* the mailItemData built by an upload with the AI down
    \* ---- analyzeDocument (SpecAnalyze) ----
    outcomes,       \* the outcomes of the external steps of the invocation
    analysisResult, \* what the invocation returned, once it has run
    \* ---- database ----
    users,          \* the rows of table users
    userSettings,   \* the rows of table user_settings
    mailItems,      \* the rows of table mail_items
    nextId,         \* the next value of the serial mail_items.id
    clock,          \* Date.now() / now() of the database, in ticks
    lastCall,       \* the mail-item call the last request made, and its result
    uploads,        \* the files of directory uploads/
    \* ---- HTTP ----
    request,        \* the request being served
    response,       \* the response sent for it
    pc,             \* where each concurrent request stands in its handler
    \* ---- notification ----
    mailer,         \* SMTP settings, the attachment on disk, the SMTP server
    notification,   \* what sendLetterNotification did for the last request
    \* ---- OAuth ----
    oauthStates     \* the map oauthStates: state |-> timestamp

inputVars    == <<fileName, today>>
fallbackVars == <<errors, results, uploaded>>
analyzeVars  == <<outcomes, analysisResult>>
storeVars    == <<users, userSettings, mailItems, nextId, clock, lastCall, uploads>>
httpVars     == <<request, response, pc>>
mailVars     == <<mailer, notification>>
oauthVars    == <<oauthStates>>

vars == <<inputVars, fallbackVars, analyzeVars, storeVars, httpVars, mailVars, oauthVars>>

\* the parts of the state a specification does not use
NoUpload       == [done |-> FALSE]
NoEnv          == [readFile |-> "unused"]
NoAnalysis     == [done |-> FALSE]
NoRequest      == [route |-> "none"]
NoResponse     == [status |-> 0]
NoMailer       == [sendMail |-> "unused"]
NoNotification == [called |-> FALSE]
NoCall         == [op |-> "none", userId |-> "nobody", rows |-> <<>>]

FallbackIdle == errors = <<>> /\ results = <<>> /\ uploaded = NoUpload
AnalyzeIdle  == outcomes = NoEnv /\ analysisResult = NoAnalysis
StoreIdle    == users = {} /\ userSettings = {} /\ mailItems = {}
                /\ nextId = 1 /\ clock = 1 /\ lastCall = NoCall /\ uploads = {}
HttpIdle     == request = NoRequest /\ response = NoResponse /\ pc = <<>>
MailIdle     == mailer = NoMailer /\ notification = NoNotification
OAuthIdle    == oauthStates = <<>>

---------------------------------------------------------------------------
(* Text helpers *)

UpperChars == <<"A","B","C","D","E","F","G","H","I","J","K","L","M",
                "N","O","P","Q","R","S","T","U","V","W","X","Y","Z">>
LowerChars == <<"a","b","c","d","e","f","g","h","i","j","k","l","m",
                "n","o","p","q","r","s","t","u","v","w","x","y","z">>

\* the lower-case letter of every upper-case letter
lowerOf ==
    [c \in {UpperChars[i] : i \in 1..Len(UpperChars)} |->
        LowerChars[CHOOSE i \in 1..Len(UpperChars) : UpperChars[i] = c]]

\* String.prototype.toLowerCase on one character
toLowerChar(c) == IF c \in DOMAIN lowerOf THEN lowerOf[c] ELSE c

\* a lower-casing that was left out
keepCase(s) == s

\* String.prototype.toLowerCase
toLowerCase(s) == [i \in 1..Len(s) |-> toLowerChar(s[i])]

\* String.prototype.includes
includes(s, sub) ==
    \E i \in 0..(Len(s) - Len(sub)) : \A j \in 1..Len(sub) : s[i + j] = sub[j]

\* s.startsWith(p)
startsWith(s, p) == Len(p) <= Len(s) /\ SubSeq(s, 1, Len(p)) = p

\* fileName.replace(/\.[^/.]+$/, ""): drop a last extension, that is a "."
\* followed, up to the end, by one or more characters other than "/" and "."
stripExtension(s) ==
    LET dots == {i \in 1..Len(s) : s[i] = "."}
    IN  IF dots = {} THEN s
        ELSE LET last == CHOOSE i \in dots : \A j \in dots : j <= i
             IN  IF last < Len(s) /\ \A j \in (last + 1)..Len(s) : s[j] # "/"
                 THEN SubSeq(s, 1, last - 1)
                 ELSE s

---------------------------------------------------------------------------
(* JavaScript values as they come out of JSON.parse or are left undefined *)

JsString(rope) == [t |-> "string", v |-> rope]
JsUndefined    == [t |-> "undefined", v |-> <<>>]
JsNull         == [t |-> "null", v |-> <<>>]
JsNumber       == [t |-> "number", v |-> <<"42">>]
JsObject       == [t |-> "object", v |-> <<"{}">>]

\* JavaScript truthiness: undefined, null and "" are falsy (the number and
\* the object used here are truthy)
truthy(x) ==
    CASE x.t = "undefined" -> FALSE
      [] x.t = "null"      -> FALSE
      [] x.t = "string"    -> x.v # <<>>
      [] OTHER             -> TRUE

\* a || b
orElse(a, b) == IF truthy(a) THEN a ELSE b

---------------------------------------------------------------------------
(* Calendar: new Date(), setDate, toISOString().split('T')[0] *)

isLeap(y) == (y % 4 = 0 /\ y % 100 # 0) \/ y % 400 = 0

daysInMonth(y, m) ==
    CASE m \in {1, 3, 5, 7, 8, 10, 12} -> 31
      [] m \in {4, 6, 9, 11}           -> 30
      [] OTHER                         -> IF isLeap(y) THEN 29 ELSE 28

\* Date normalisation of an over-long day of month, as Date.prototype.setDate
\* does: the surplus days roll into the following months and years
RECURSIVE normalizeDate(_)
normalizeDate(dt) ==
    IF dt.d <= daysInMonth(dt.y, dt.m) THEN dt
    ELSE normalizeDate(
            [y |-> IF dt.m = 12 THEN dt.y + 1 ELSE dt.y,
             m |-> IF dt.m = 12 THEN 1 ELSE dt.m + 1,
             d |-> dt.d - daysInMonth(dt.y, dt.m)])

\* a day of month that is raised without the carry into the next month
setDateNoCarry(dt, n) == [dt EXCEPT !.d = dt.d + n]

\* futureDate.setDate(futureDate.getDate() + n)
setDate(dt, n) == normalizeDate([dt EXCEPT !.d = dt.d + n])

pad2(n) == IF n < 10 THEN "0" \o ToString(n) ELSE ToString(n)

\* date.toISOString().split('T')[0]: "YYYY-MM-DD"
isoDate(dt) == <<ToString(dt.y), "-", pad2(dt.m), "-", pad2(dt.d)>>

---------------------------------------------------------------------------
(* Keywords of the fallback classifier, as character sequences *)

kw_council     == <<"c", "o", "u", "n", "c", "i", "l">>
kw_tax         == <<"t", "a", "x">>
kw_bill        == <<"b", "i", "l", "l">>
kw_invoice     == <<"i", "n", "v", "o", "i", "c", "e">>
kw_appointment == <<"a", "p", "p", "o", "i", "n", "t", "m", "e", "n", "t">>
kw_doctor      == <<"d", "o", "c", "t", "o", "r">>
kw_medical     == <<"m", "e", "d", "i", "c", "a", "l">>
kw_clinic      == <<"c", "l", "i", "n", "i", "c">>
kw_bank        == <<"b", "a", "n", "k">>
kw_statement   == <<"s", "t", "a", "t", "e", "m", "e", "n", "t">>
kw_finance     == <<"f", "i", "n", "a", "n", "c", "e">>
kw_insurance   == <<"i", "n", "s", "u", "r", "a", "n", "c", "e">>
kw_policy      == <<"p", "o", "l", "i", "c", "y">>
kw_claim       == <<"c", "l", "a", "i", "m">>
kw_nhs         == <<"n", "h", "s">>
kw_health      == <<"h", "e", "a", "l", "t", "h">>
kw_gov         == <<"g", "o", "v">>
kw_hmrc        == <<"h", "m", "r", "c">>
kw_dvla        == <<"d", "v", "l", "a">>
kw_government  == <<"g", "o", "v", "e", "r", "n", "m", "e", "n", "t">>
kw_ticket      == <<"t", "i", "c", "k", "e", "t">>
kw_travel      == <<"t", "r", "a", "v", "e", "l">>
kw_train       == <<"t", "r", "a", "i", "n">>
kw_flight      == <<"f", "l", "i", "g", "h", "t">>

---------------------------------------------------------------------------
(* The analyzer's errors.  What the code reads of a caught value is whether *)
(* it is an Error and whether its message contains "quota" or "429".        *)

\* "quota", "429": an Error whose message holds that word; "network": another
\* Error of the API client; "nonError": a thrown value that is no Error;
\* "typeError", "fsError", "conversion": the Errors the analyzer meets itself
ErrorKinds ==
    {"quota", "429", "network", "nonError", "typeError", "fsError", "conversion"}

\* error instanceof Error && (error.message.includes('quota') ||
\*                            error.message.includes('429'))
isQuotaError(error) == error \in {"quota", "429"}

---------------------------------------------------------------------------
(* validateCategory and generateEnhancedFallback *)

validCategories ==
    {"bill", "appointment", "personal", "promotional", "government",
     "insurance", "nhs"}

\* a validation that lets every string through
validateCategoryAnyString(category) ==
    IF category.t = "string" /\ Len(category.v) = 1 THEN category.v[1] ELSE "personal"

\* category: a JavaScript value; the result is always one of the seven
validateCategory(category) ==
    IF category.t = "string" /\ Len(category.v) = 1
                             /\ category.v[1] \in validCategories
    THEN category.v[1]
    ELSE "personal"

\* the if / else-if chain over lowerFileName: the first branch whose keyword
\* occurs decides category, title prefix, summary and whether a reminder is set
fallbackBranch(lowerFileName) ==
    IF includes(lowerFileName, kw_council) \/ includes(lowerFileName, kw_tax)
       \/ includes(lowerFileName, kw_bill) \/ includes(lowerFileName, kw_invoice)
    THEN [category |-> "bill", prefix |-> "Bill/Tax Document - ",
          summary |-> "Billing or tax document. Review payment details, due dates, and account information. Set reminder for payment if needed.",
          reminder |-> TRUE]
    ELSE IF includes(lowerFileName, kw_appointment) \/ includes(lowerFileName, kw_doctor)
            \/ includes(lowerFileName, kw_medical) \/ includes(lowerFileName, kw_clinic)
    THEN [category |-> "appointment", prefix |-> "Medical Appointment - ",
          summary |-> "Medical appointment or healthcare document. Verify appointment details, time, and location. Prepare required documents or follow pre-appointment instructions.",
          reminder |-> FALSE]
    ELSE IF includes(lowerFileName, kw_bank) \/ includes(lowerFileName, kw_statement)
            \/ includes(lowerFileName, kw_finance)
    THEN [category |-> "bill", prefix |-> "Financial Document - ",
          summary |-> "Financial statement or banking document. Review transactions, account balance, and any important notices or changes.",
          reminder |-> FALSE]
    ELSE IF includes(lowerFileName, kw_insurance) \/ includes(lowerFileName, kw_policy)
            \/ includes(lowerFileName, kw_claim)
    THEN [category |-> "insurance", prefix |-> "Insurance Document - ",
          summary |-> "Insurance policy, claim, or coverage document. Review policy details, coverage limits, renewal dates, and any required actions.",
          reminder |-> FALSE]
    ELSE IF includes(lowerFileName, kw_nhs) \/ includes(lowerFileName, kw_health)
    THEN [category |-> "nhs", prefix |-> "NHS/Health Document - ",
          summary |-> "NHS or health service document. Review appointment details, treatment information, test results, or health records.",
          reminder |-> FALSE]
    ELSE IF includes(lowerFileName, kw_gov) \/ includes(lowerFileName, kw_hmrc)
            \/ includes(lowerFileName, kw_dvla) \/ includes(lowerFileName, kw_government)
    THEN [category |-> "government", prefix |-> "Government Document - ",
          summary |-> "Official government correspondence or document. Review requirements, deadlines, and respond by specified dates if action is required.",
          reminder |-> FALSE]
    ELSE IF includes(lowerFileName, kw_ticket) \/ includes(lowerFileName, kw_travel)
            \/ includes(lowerFileName, kw_train) \/ includes(lowerFileName, kw_flight)
    THEN [category |-> "personal", prefix |-> "Travel Document - ",
          summary |-> "Travel ticket or booking confirmation. Verify travel details, departure times, seat assignments, and any special requirements.",
          reminder |-> FALSE]
    ELSE [category |-> "personal", prefix |-> "Document - ",
          summary |-> "Document uploaded and categorized based on filename. AI analysis will provide detailed content extraction once service is available.",
          reminder |-> FALSE]

\* a note that also tells a thrown value that is no Error apart
fallbackSuffixByKind(error) ==
    IF isQuotaError(error)
    THEN " (AI analysis temporarily unavailable due to quota limits)"
    ELSE IF error = "nonError"
    THEN " (Detailed AI analysis failed)"
    ELSE " (Detailed AI analysis failed - document processed based on filename)"

\* the degraded-mode note appended to the summary
fallbackSuffix(error) ==
    IF isQuotaError(error)
    THEN " (AI analysis temporarily unavailable due to quota limits)"
    ELSE " (Detailed AI analysis failed - document processed based on filename)"

\* generateEnhancedFallback(fileName, error), invoked on the date now
generateEnhancedFallback(name, error, now) ==
    LET b == fallbackBranch(toLowerCase(name))
    IN  [title            |-> JsString(<<b.prefix>> \o stripExtension(name)),
         summary          |-> JsString(<<b.summary, fallbackSuffix(error)>>),
         category         |-> b.category,
         categories       |-> <<b.category>>,
         customCategories |-> <<>>,
         reminderDate     |-> IF b.reminder
                              THEN JsString(isoDate(setDate(now, 14)))
                              ELSE JsUndefined,
         extractedText    |-> JsString(
             <<"Filename-based analysis for: ">> \o name
             \o <<" This document could not be processed with OCR due to service limitations. The content analysis is based on the filename pattern. Document type: ",
                  b.category, " Expected content based on filename patterns.">>)]

---------------------------------------------------------------------------
(* analyzeDocument.  env gives the outcome of every external step of one    *)
(* invocation:                                                              *)
(*   readFile  "ok" | "throws"              fs.readFileSync                 *)
(*   convert   "ok" | "throws" | "noBuffer" | "emptyImage"   pdf2pic page 1 *)
(*   ocr       [ok, error, content]         the OCR completion              *)
(*   classify  [ok, error, content, obj]    the text classification         *)
(*   byName    [ok, error, content, obj]    the filename-only classification*)
(* A completion either throws error (ok = FALSE) or returns content.  For   *)
(* the OCR call content is the message text (a JavaScript value); for a     *)
(* classification call content says what JSON.parse makes of the message:   *)
(*   "none"         no content, so '{}' is parsed                           *)
(*   "syntaxError"  JSON.parse throws (error gives the SyntaxError's kind)  *)
(*   "null"         the JSON value null                                     *)
(*   "object"       the object obj = [title, summary, category, reminderDate]*)

emptyObject ==
    [title |-> JsUndefined, summary |-> JsUndefined,
     category |-> JsUndefined, reminderDate |-> JsUndefined]

\* path.extname: from the last "." of the name to its end; "" when there is
\* no "." or the only one starts the name
extname(name) ==
    LET dots == {i \in 1..Len(name) : name[i] = "."}
    IN  IF dots = {} THEN <<>>
        ELSE LET last == CHOOSE i \in dots : \A j \in dots : j <= i
             IN  IF last = 1 THEN <<>> ELSE SubSeq(name, last, Len(name))

isSpace(c) == c \in {" ", "\n", "\t"}

\* String.prototype.trim on a rope whose white space is in chunks of its own
RECURSIVE trim(_)
trim(s) ==
    IF s = <<>> THEN s
    ELSE IF isSpace(Head(s)) THEN trim(Tail(s))
    ELSE IF isSpace(s[Len(s)]) THEN trim(SubSeq(s, 1, Len(s) - 1))
    ELSE s

threw(error) == [threw |-> TRUE, error |-> error, obj |-> emptyObject]
parsed(obj)  == [threw |-> FALSE, error |-> "none", obj |-> obj]

\* await openai.chat.completions.create(...) followed by
\* JSON.parse(response.choices[0].message.content || '{}') and the first
\* property read of the parsed value
completionJson(call) ==
    IF ~call.ok THEN threw(call.error)
    ELSE CASE call.content = "none"        -> parsed(emptyObject)
           [] call.content = "syntaxError" -> threw(call.error)
           [] call.content = "null"        -> threw("typeError")
           [] OTHER                        -> parsed(call.obj)

returned(result, calls, via) ==
    [threw |-> FALSE, result |-> result, calls |-> calls, via |-> via,
     error |-> "none"]

\* an outer catch that logs the error and throws it on
outerCatchRethrow(name, error, calls, now) ==
    [threw |-> TRUE,
     result |-> [title |-> JsUndefined, summary |-> JsUndefined,
                 category |-> "undefined", categories |-> <<>>,
                 customCategories |-> <<>>, reminderDate |-> JsUndefined,
                 extractedText |-> JsUndefined],
     calls |-> calls, via |-> "thrown", error |-> error]

\* the outer catch: generateEnhancedFallback(fileName, error)
outerCatch(name, error, calls, now) ==
    [threw |-> FALSE, result |-> generateEnhancedFallback(name, error, now),
     calls |-> calls, via |-> "fallback", error |-> error]

\* the inner catch of the PDF branch: the filename-only classification
pdfInnerCatch(name, env, calls, now) ==
    LET r == completionJson(env.byName)
    IN  IF r.threw THEN outerCatch(name, r.error, Append(calls, "byName"), now)
        ELSE returned(
            [title            |-> orElse(r.obj.title, JsString(<<"PDF - ">> \o name)),
             summary          |-> orElse(r.obj.summary,
                                    JsString(<<"PDF document analyzed based on filename.">>)),
             category         |-> validateCategory(r.obj.category),
             categories       |-> <<validateCategory(r.obj.category)>>,
             customCategories |-> <<>>,
             reminderDate     |-> orElse(r.obj.reminderDate, JsNull),
             extractedText    |-> JsString(<<"PDF Processing Failed - ">> \o name
                 \o <<" This PDF could not be converted to image for OCR processing. Analysis based on filename patterns.">>)],
            Append(calls, "byName"), "pdfByName")

\* the try block of the PDF branch
pdfBranch(name, env, now) ==
    IF env.convert # "ok" THEN pdfInnerCatch(name, env, <<>>, now)
    ELSE IF ~env.ocr.ok THEN pdfInnerCatch(name, env, <<"ocr">>, now)
    ELSE LET extractedText == orElse(env.ocr.content, JsString(<<>>))
             r == completionJson(env.classify)
         IN  IF r.threw THEN pdfInnerCatch(name, env, <<"ocr", "classify">>, now)
             ELSE returned(
                 [title            |-> orElse(r.obj.title,
                                         JsString(<<"PDF Document - ">> \o name)),
                  summary          |-> orElse(r.obj.summary,
                                         JsString(<<"PDF document processed successfully via image conversion and OCR.">>)),
                  category         |-> validateCategory(r.obj.category),
                  categories       |-> <<validateCategory(r.obj.category)>>,
                  customCategories |-> <<>>,
                  reminderDate     |-> orElse(r.obj.reminderDate, JsNull),
                  extractedText    |-> extractedText],
                 <<"ocr", "classify">>, "pdfOcr")

\* the image branch (every extension other than .pdf)
imageBranch(name, env, now) ==
    IF env.readFile # "ok" THEN outerCatch(name, "fsError", <<>>, now)
    ELSE IF ~env.ocr.ok THEN outerCatch(name, env.ocr.error, <<"ocr">>, now)
    ELSE LET extractedText ==
                 IF env.ocr.content.t = "string"
                 THEN JsString(trim(env.ocr.content.v))
                 ELSE JsString(<<>>)
             r == completionJson(env.classify)
         IN  IF r.threw THEN outerCatch(name, r.error, <<"ocr", "classify">>, now)
             ELSE returned(
                 [title            |-> orElse(r.obj.title,
                                         JsString(<<"Document - ">> \o name)),
                  summary          |-> orElse(r.obj.summary,
                                         JsString(<<"Document processed successfully.">>)),
                  category         |-> validateCategory(r.obj.category),
                  categories       |-> <<validateCategory(r.obj.category)>>,
                  customCategories |-> <<>>,
                  reminderDate     |-> orElse(r.obj.reminderDate, JsUndefined),
                  extractedText    |-> extractedText],
                 <<"ocr", "classify">>, "image")

ext_pdf == <<".", "p", "d", "f">>

\* analyzeDocument(filePath, fileName): its result, the external calls it
\* issued in order, and the return site
analyzeDocument(name, env, now) ==
    IF toLowerCase(extname(name)) = ext_pdf
    THEN pdfBranch(name, env, now)
    ELSE imageBranch(name, env, now)

---------------------------------------------------------------------------
(* POST /api/mail-items: the record built from the analysis, and its        *)
(* validation by insertMailItemSchema                                       *)

uploadsUrl(storedName) == <<"/uploads/", storedName>>

\* mailItemData of the upload handler
mailItemData(userId, originalname, storedName, analysis) ==
    [userId        |-> userId,
     title         |-> analysis.title,
     summary       |-> analysis.summary,
     category      |-> analysis.category,
     reminderDate  |-> orElse(analysis.reminderDate, JsNull),
     imageUrl      |-> uploadsUrl(storedName),
     fileName      |-> originalname,
     extractedText |-> analysis.extractedText]

\* insertMailItemSchema.parse(data) succeeds: title, summary, category,
\* imageUrl and fileName are strings, reminderDate and extractedText are
\* strings, null or absent
insertMailItemSchemaOk(data) ==
    /\ data.title.t = "string"
    /\ data.summary.t = "string"
    /\ data.reminderDate.t \in {"string", "null", "undefined"}
    /\ data.extractedText.t \in {"string", "null", "undefined"}

---------------------------------------------------------------------------
(* SpecFallback: the fallback classifier on sample file names and dates,    *)
(* invoked twice, and the upload of the same file with the AI unavailable   *)

MaxFill == 1

Keywords ==
    {kw_council, kw_tax, kw_bill, kw_invoice, kw_appointment, kw_doctor,
     kw_medical, kw_clinic, kw_bank, kw_statement, kw_finance, kw_insurance,
     kw_policy, kw_claim, kw_nhs, kw_health, kw_gov, kw_hmrc, kw_dvla,
     kw_government, kw_ticket, kw_travel, kw_train, kw_flight}

\* words that hold no keyword, an upper-case spelling, and "ta" + "x", which
\* makes "tax" only across the joint
FirstPieces ==
    Keywords \cup {<<>>, <<"r", "a", "n", "d", "o", "m">>, <<"T", "A", "X">>,
                   <<"I", "n", "v", "o", "i", "c", "e">>, <<"t", "a">>}
SecondPieces ==
    {<<>>, <<"x", "y", "z">>, kw_bill, kw_doctor, kw_statement, kw_claim,
     kw_health, kw_dvla, kw_train, <<"B", "A", "N", "K">>}

Fill(n) == [i \in 1..n |-> "_"]

Extensions == {ext_pdf, <<".", "P", "N", "G">>}

council_tax_bill_2024_pdf ==
    <<"c", "o", "u", "n", "c", "i", "l", "_", "t", "a", "x", "_", "b", "i",
      "l", "l", "_", "2", "0", "2", "4", ".", "p", "d", "f">>
random_xyz_png ==
    <<"r", "a", "n", "d", "o", "m", "_", "x", "y", "z", ".", "p", "n", "g">>

FileNames ==
    {a \o Fill(n) \o b \o e :
        a \in FirstPieces, n \in 0..MaxFill, b \in SecondPieces, e \in Extensions}
    \cup {council_tax_bill_2024_pdf, random_xyz_png}

Date(y, m, d) == [y |-> y, m |-> m, d |-> d]

\* month ends, a leap and a common February, the turn of the year
Dates ==
    {Date(2024, 1, 31), Date(2024, 2, 15), Date(2024, 2, 16),
     Date(2025, 2, 15), Date(2024, 12, 18), Date(2025, 6, 1)}

\* the errors handed to the classifier in the two invocations
FallbackErrors == {"quota", "network", "nonError"}

\* every OpenAI call throws error; the file itself reads and converts or not
aiDown(error, convert) ==
    [readFile |-> "ok", convert |-> convert,
     ocr      |-> [ok |-> FALSE, error |-> error, content |-> JsNull],
     classify |-> [ok |-> FALSE, error |-> error, content |-> "none",
                   obj |-> emptyObject],
     byName   |-> [ok |-> FALSE, error |-> error, content |-> "none",
                   obj |-> emptyObject]]


InitFallback ==
    /\ fileName \in FileNames
    /\ today \in Dates
    /\ OAuthIdle
    /\ FallbackIdle
    /\ AnalyzeIdle
    /\ StoreIdle
    /\ HttpIdle
    /\ MailIdle

\* one invocation of generateEnhancedFallback(fileName, error)
Classify ==
    /\ Len(results) < 2
    /\ ~uploaded.done
    /\ \E error \in FallbackErrors :
        /\ errors' = Append(errors, error)
        /\ results' = Append(results, generateEnhancedFallback(fileName, error, today))
    /\ UNCHANGED <<oauthVars, fileName, today, uploaded, analyzeVars, storeVars, httpVars, mailVars>>

\* POST /api/mail-items for the file while every AI call fails: the analysis
\* and the validated mailItemData
UploadWithAIDown ==
    /\ results = <<>>
    /\ ~uploaded.done
    /\ \E error \in FallbackErrors, convert \in {"ok", "throws"} :
        LET a == analyzeDocument(fileName, aiDown(error, convert), today)
            data == mailItemData("u1", fileName, "file-1", a.result)
        IN  uploaded' = [done |-> TRUE, via |-> a.via, calls |-> a.calls,
                         valid |-> insertMailItemSchemaOk(data), data |-> data]
    /\ UNCHANGED <<oauthVars, fileName, today, errors, results, analyzeVars, storeVars, httpVars, mailVars>>

NextFallback == Classify \/ UploadWithAIDown

SpecFallback == InitFallback /\ [][NextFallback]_vars

---------------------------------------------------------------------------
(* Properties of the fallback classifier (C7, C8, C9) *)

\* kw occurs in name when letter case is ignored
containsCI(name, kw) ==
    \E i \in 1..Len(name) :
        /\ i + Len(kw) - 1 <= Len(name)
        /\ \A j \in 1..Len(kw) : toLowerChar(name[i + j - 1]) = kw[j]

\* the day after dt
nextDay(dt) ==
    IF dt.d < daysInMonth(dt.y, dt.m) THEN Date(dt.y, dt.m, dt.d + 1)
    ELSE IF dt.m < 12 THEN Date(dt.y, dt.m + 1, 1)
    ELSE Date(dt.y + 1, 1, 1)

\* the date n days after dt
RECURSIVE daysAfter(_, _)
daysAfter(dt, n) == IF n = 0 THEN dt ELSE daysAfter(nextDay(dt), n - 1)

hasBillKeyword(name) ==
    \E kw \in {kw_council, kw_tax, kw_bill, kw_invoice} : containsCI(name, kw)

isBillRecord(r, now) ==
    /\ r.category = "bill"
    /\ r.title.t = "string"
    /\ Len(r.title.v) >= 1
    /\ r.title.v[1] = "Bill/Tax Document - "
    /\ r.reminderDate = JsString(isoDate(daysAfter(now, 14)))

RuleTable ==
    << [kws |-> {kw_council, kw_tax, kw_bill, kw_invoice},
        category |-> "bill", prefix |-> "Bill/Tax Document - "],
       [kws |-> {kw_appointment, kw_doctor, kw_medical, kw_clinic},
        category |-> "appointment", prefix |-> "Medical Appointment - "],
       [kws |-> {kw_bank, kw_statement, kw_finance},
        category |-> "bill", prefix |-> "Financial Document - "],
       [kws |-> {kw_insurance, kw_policy, kw_claim},
        category |-> "insurance", prefix |-> "Insurance Document - "],
       [kws |-> {kw_nhs, kw_health},
        category |-> "nhs", prefix |-> "NHS/Health Document - "],
       [kws |-> {kw_gov, kw_hmrc, kw_dvla, kw_government},
        category |-> "government", prefix |-> "Government Document - "],
       [kws |-> {kw_ticket, kw_travel, kw_train, kw_flight},
        category |-> "personal", prefix |-> "Travel Document - "] >>

ruleMatches(name, k) == \E kw \in RuleTable[k].kws : containsCI(name, kw)

\* the rows of the table that match name
matchingRules(name) == {k \in DOMAIN RuleTable : ruleMatches(name, k)}

\* the least element of a non-empty set of numbers
least(S) == CHOOSE k \in S : \A j \in S : k <= j

firstMatch(name) == least(matchingRules(name))

GenericSummary ==
    "Document uploaded and categorized based on filename. AI analysis will provide detailed content extraction once service is available."

followsTableAt(r, name, rules) ==
    IF rules # {}
    THEN /\ r.category = RuleTable[least(rules)].category
         /\ r.title.v[1] = RuleTable[least(rules)].prefix
    ELSE /\ r.category = "personal"
         /\ r.title = JsString(<<"Document - ">> \o stripExtension(name))
         /\ r.summary.v[1] = GenericSummary
         /\ ~truthy(r.reminderDate)

\* C8: the fallback classifier is a first-match decision table over the
\* lower-cased file name, in the order bill keywords, appointment keywords,
\* bank keywords (bill), insurance, nhs, government, travel (personal, with
\* a travel title); a name that matches no keyword gets category personal,
\* the generic title and summary and no reminder date (null in the record).
C8_FirstMatchTable ==
    (results # <<>> \/ uploaded.done) =>
        LET rules == matchingRules(fileName)
        IN  /\ \A i \in DOMAIN results : followsTableAt(results[i], fileName, rules)
            /\ uploaded.done =>
                  /\ followsTableAt(uploaded.data, fileName, rules)
                  /\ rules = {} => uploaded.data.reminderDate = JsNull

\* a name holding keywords of two rows, decided by the earlier row, after
\* a name without keyword has its case
C8_Witness ==
    /\ Len(results) = 2
    /\ Cardinality(matchingRules(fileName)) >= 2
    /\ firstMatch(fileName) = 2
    /\ results[1].category = "appointment"

C8_WitnessNoKeyword ==
    /\ fileName = random_xyz_png
    /\ uploaded.done
    /\ uploaded.data.category = "personal"
    /\ uploaded.data.reminderDate = JsNull

isValidResult(r) ==
    /\ r.title.t = "string" /\ r.title.v # <<>>
    /\ r.summary.t = "string" /\ r.summary.v # <<>>
    /\ r.extractedText.t = "string" /\ r.extractedText.v # <<>>
    /\ r.category \in validCategories
    /\ r.categories = <<r.category>>
    /\ r.reminderDate.t \in {"string", "undefined"}

---------------------------------------------------------------------------
(* SpecAnalyze: one invocation of analyzeDocument for every combination of  *)
(* outcomes of the file read, the rasterization, the OCR call, the          *)
(* classification calls and the JSON parsing                                *)

ApiErrors == {"quota", "network"}

OcrContents ==
    {JsNull, JsString(<<>>), JsString(<<" ">>),
     JsString(<<"Dear", " ", "customer", "\n">>)}

OcrOutcomes ==
    {[ok |-> FALSE, error |-> e, content |-> JsNull] : e \in ApiErrors}
    \cup {[ok |-> TRUE, error |-> "none", content |-> c] : c \in OcrContents}

\* parsed classification messages: complete, empty, and with a field of an
\* unexpected type or value
JsonObjects ==
    {[title |-> JsString(<<"Gas bill">>), summary |-> JsString(<<"Pay by Friday.">>),
      category |-> JsString(<<"bill">>), reminderDate |-> JsString(<<"2025-01-31">>)],
     [title |-> JsNumber, summary |-> JsString(<<"Pay by Friday.">>),
      category |-> JsString(<<"nhs">>), reminderDate |-> JsUndefined],
     [title |-> JsString(<<"Offer">>), summary |-> JsObject,
      category |-> JsString(<<"spam">>), reminderDate |-> JsNull],
     [title |-> JsString(<<>>), summary |-> JsUndefined,
      category |-> JsNumber, reminderDate |-> JsNumber],
     [title |-> JsString(<<"Letter">>), summary |-> JsString(<<"A letter.">>),
      category |-> JsUndefined, reminderDate |-> JsUndefined]}

JsonOutcomes ==
    {[ok |-> FALSE, error |-> e, content |-> "none", obj |-> emptyObject] :
        e \in ApiErrors}
    \cup {[ok |-> TRUE, error |-> "none", content |-> c, obj |-> emptyObject] :
            c \in {"none", "null"}}
    \cup {[ok |-> TRUE, error |-> e, content |-> "syntaxError", obj |-> emptyObject] :
            e \in {"syntaxError", "quota"}}
    \cup {[ok |-> TRUE, error |-> "none", content |-> "object", obj |-> o] :
            o \in JsonObjects}

unusedJson == [ok |-> FALSE, error |-> "network", content |-> "none", obj |-> emptyObject]

isPdf(name) == toLowerCase(extname(name)) = ext_pdf

\* the steps a branch never reaches are held fixed
Envs(name) ==
    IF isPdf(name)
    THEN {[readFile |-> "ok", convert |-> cv, ocr |-> o, classify |-> c, byName |-> b] :
            cv \in {"ok", "throws", "noBuffer", "emptyImage"},
            o \in OcrOutcomes, c \in JsonOutcomes, b \in JsonOutcomes}
    ELSE {[readFile |-> rf, convert |-> "ok", ocr |-> o, classify |-> c, byName |-> unusedJson] :
            rf \in {"ok", "throws"}, o \in OcrOutcomes, c \in JsonOutcomes}

scan_PDF   == <<"s", "c", "a", "n", ".", "P", "D", "F">>
letter_jpg == <<"l", "e", "t", "t", "e", "r", ".", "j", "p", "g">>
dot_pdf    == <<".", "p", "d", "f">>

AnalyzeNames ==
    {council_tax_bill_2024_pdf, random_xyz_png, scan_PDF, letter_jpg, dot_pdf}

InitAnalyze ==
    /\ fileName \in AnalyzeNames
    /\ today = Date(2024, 12, 18)
    /\ OAuthIdle
    /\ outcomes \in Envs(fileName)
    /\ analysisResult = NoAnalysis
    /\ FallbackIdle
    /\ StoreIdle
    /\ HttpIdle
    /\ MailIdle

\* await analyzeDocument(filePath, fileName)
Analyze ==
    /\ ~analysisResult.done
    /\ analysisResult' = [done |-> TRUE, out |-> analyzeDocument(fileName, outcomes, today)]
    /\ UNCHANGED <<inputVars, oauthVars, fallbackVars, outcomes, storeVars, httpVars, mailVars>>

NextAnalyze == Analyze

SpecAnalyze == InitAnalyze /\ [][NextAnalyze]_vars

isSet(x) == x.t \notin {"undefined", "null"}

\* C4: analyzeDocument never throws to its caller: for every combination of
\* outcomes of the file read, the PDF rasterization, the OCR call, the
\* classification calls and the JSON parsing it returns a result whose title,
\* summary and extractedText are set and whose category is one of the seven
\* standard categories.
C4_AnalyzeNeverThrows ==
    analysisResult.done =>
        /\ ~analysisResult.out.threw
        /\ isSet(analysisResult.out.result.title)
        /\ isSet(analysisResult.out.result.summary)
        /\ isSet(analysisResult.out.result.extractedText)
        /\ analysisResult.out.result.category \in validCategories

\* a PDF whose OCR succeeds, whose classification message is no JSON and
\* whose filename-only classification throws
C4_Witness ==
    /\ analysisResult.done
    /\ isPdf(fileName)
    /\ outcomes.classify.content = "syntaxError"
    /\ ~outcomes.byName.ok
    /\ analysisResult.out.via = "fallback"
    /\ analysisResult.out.calls = <<"ocr", "classify", "byName">>

---------------------------------------------------------------------------
(* DatabaseStorage: users and mail items.  A lookup answers                 *)
(* [found |-> FALSE] for undefined and [found |-> TRUE, row |-> r] for a row *)

undefinedRow == [found |-> FALSE]
foundRow(r)  == [found |-> TRUE, row |-> r]

\* select from users where id = :id
getUser(table, id) ==
    IF \E u \in table : u.id = id
    THEN foundRow(CHOOSE u \in table : u.id = id)
    ELSE undefinedRow

\* a nullable column without default: a value left out of the insert
\* (undefined) is stored as NULL
columnDefault(value) == IF value.t = "undefined" THEN JsNull ELSE value

\* an insert that drops the transcription
createMailItemNoText(insertMailItem, id, now) ==
    [id            |-> id,
     userId        |-> insertMailItem.userId,
     title         |-> insertMailItem.title,
     summary       |-> insertMailItem.summary,
     category      |-> insertMailItem.category,
     reminderDate  |-> columnDefault(insertMailItem.reminderDate),
     imageUrl      |-> insertMailItem.imageUrl,
     fileName      |-> insertMailItem.fileName,
     extractedText |-> JsNull,
     uploadDate    |-> now]

\* insert into mail_items values (...) returning *: the database assigns the
\* serial id and upload_date = now()
createMailItem(insertMailItem, id, now) ==
    [id            |-> id,
     userId        |-> insertMailItem.userId,
     title         |-> insertMailItem.title,
     summary       |-> insertMailItem.summary,
     category      |-> insertMailItem.category,
     reminderDate  |-> columnDefault(insertMailItem.reminderDate),
     imageUrl      |-> insertMailItem.imageUrl,
     fileName      |-> insertMailItem.fileName,
     extractedText |-> columnDefault(insertMailItem.extractedText),
     uploadDate    |-> now]

\* SQL LIKE on lower-cased text: "%" matches any run of characters, "_" any
\* one character, every other character itself (patterns hold no backslash)
RECURSIVE likeMatch(_, _)
likeMatch(text, pattern) ==
    IF pattern = <<>> THEN text = <<>>
    ELSE IF Head(pattern) = "%"
    THEN \/ likeMatch(text, Tail(pattern))
         \/ text # <<>> /\ likeMatch(Tail(text), pattern)
    ELSE IF Head(pattern) = "_"
    THEN text # <<>> /\ likeMatch(Tail(text), Tail(pattern))
    ELSE /\ text # <<>>
         /\ Head(text) = Head(pattern)
         /\ likeMatch(Tail(text), Tail(pattern))

\* column ILIKE pattern; NULL ILIKE pattern is not true
ilike(column, pattern) ==
    /\ column.t = "string"
    /\ likeMatch(toLowerCase(column.v), toLowerCase(pattern))

\* the characters of the category column
categoryText ==
    [bill |-> <<"b", "i", "l", "l">>,
     appointment |-> <<"a", "p", "p", "o", "i", "n", "t", "m", "e", "n", "t">>,
     personal |-> <<"p", "e", "r", "s", "o", "n", "a", "l">>,
     promotional |-> <<"p", "r", "o", "m", "o", "t", "i", "o", "n", "a", "l">>,
     government |-> <<"g", "o", "v", "e", "r", "n", "m", "e", "n", "t">>,
     insurance |-> <<"i", "n", "s", "u", "r", "a", "n", "c", "e">>,
     nhs |-> <<"n", "h", "s">>]

\* order by upload_date desc: every order of the rows that is descending in
\* uploadDate (rows of one instant come in any order)
orderByDesc(rows) ==
    {s \in [1..Cardinality(rows) -> rows] :
        /\ \A i, j \in DOMAIN s : i < j => s[i] # s[j] /\ s[i].uploadDate >= s[j].uploadDate}

\* a query that forgets the owner
ownedByAnyone(row, userId) == TRUE

\* eq(mailItems.userId, userId)
ownedBy(row, userId) == row.userId = userId

getAllMailItems(table, userId) ==
    orderByDesc({r \in table : ownedBy(r, userId)})

getMailItem(table, id, userId) ==
    LET hit == {r \in table : r.id = id /\ ownedBy(r, userId)}
    IN  IF hit = {} THEN undefinedRow ELSE foundRow(CHOOSE r \in hit : TRUE)

searchMailItems(table, query, userId) ==
    LET pattern == <<"%">> \o query \o <<"%">>
    IN  orderByDesc({r \in table :
            /\ ownedBy(r, userId)
            /\ \/ ilike(r.title, pattern)
               \/ ilike(r.summary, pattern)
               \/ ilike(JsString(categoryText[r.category]), pattern)
               \/ ilike(r.extractedText, pattern)})

getMailItemsByCategory(table, category, userId) ==
    orderByDesc({r \in table : r.category = category /\ ownedBy(r, userId)})

\* update ... set :updates where id = :id and user_id = :userId
applyUpdates(row, updates) ==
    [f \in DOMAIN row |-> IF f \in DOMAIN updates THEN updates[f] ELSE row[f]]

updateMailItem(table, id, userId, updates) ==
    {IF r.id = id /\ ownedBy(r, userId) THEN applyUpdates(r, updates) ELSE r :
        r \in table}

deleteMailItem(table, id, userId) ==
    {r \in table : ~(r.id = id /\ ownedBy(r, userId))}

deleteAllMailItems(table, userId) ==
    {r \in table : ~ownedBy(r, userId)}

\* the columns of mail_items
MailItemColumns ==
    {"id", "userId", "title", "summary", "category", "reminderDate", "imageUrl",
     "fileName", "extractedText", "uploadDate"}

\* .set(updates) with no column to set: the query builder throws ("No values
\* to set") before any statement reaches the database
noValuesToSet(updates) == DOMAIN updates \cap MailItemColumns = {}

\* user_id references users.id: a row may not name a user that does not exist
violatesUserFk(usersTable, userId) == \A u \in usersTable : u.id # userId

\* storage.createMailItem throws: the insert violates the foreign key
createMailItemThrows(usersTable, insertMailItem) ==
    violatesUserFk(usersTable, insertMailItem.userId)

\* storage.updateMailItem throws: nothing to set, or a matched row would
\* name a user that does not exist
updateMailItemThrows(table, usersTable, id, userId, updates) ==
    \/ noValuesToSet(updates)
    \/ /\ getMailItem(table, id, userId).found
       /\ "userId" \in DOMAIN updates
       /\ violatesUserFk(usersTable, updates.userId)

\* a foreign key without "on delete cascade" action on the rows kept here
onDeleteKeep(table, userId) == table

\* references(() => users.id, { onDelete: "cascade" })
onDeleteCascade(table, userId) == {r \in table : r.userId # userId}

\* delete from users where id = :userId, with its cascades
deleteUserAccount(tables, userId) ==
    [taken        |-> tables.taken,
     users        |-> {u \in tables.users : u.id # userId},
     mailItems    |-> onDeleteCascade(tables.mailItems, userId),
     userSettings |-> onDeleteCascade(tables.userSettings, userId)]

---------------------------------------------------------------------------
(* authenticateToken: the bearer or cookie token of a request is            *)
(* [kind |-> "none"], [kind |-> "invalid"] (bad signature or expired) or     *)
(* [kind |-> "valid", userId |-> id] (signed by generateToken)               *)

noToken          == [kind |-> "none", userId |-> "nobody"]
invalidToken     == [kind |-> "invalid", userId |-> "nobody"]
tokenOf(userId)  == [kind |-> "valid", userId |-> userId]

authenticateToken(token, table) ==
    IF token.kind = "none"
    THEN [next |-> FALSE, status |-> 401, error |-> "Access token required",
          userId |-> "nobody"]
    ELSE IF token.kind = "invalid"
    THEN [next |-> FALSE, status |-> 403, error |-> "Invalid or expired token",
          userId |-> "nobody"]
    ELSE IF ~getUser(table, token.userId).found
    THEN [next |-> FALSE, status |-> 401, error |-> "User not found",
          userId |-> "nobody"]
    ELSE [next |-> TRUE, status |-> 0, error |-> "none",
          userId |-> getUser(table, token.userId).row.id]

---------------------------------------------------------------------------
(* email-service: getEmailConfig, createTransporter, sendLetterNotification *)

\* getEmailConfig(user).smtp.auth: the user's own configuration if the user
\* object carries one, else SMTP_USER and SMTP_PASS of the process ("" if unset)
getEmailConfig(user, mail) ==
    IF "emailConfig" \in DOMAIN user
    THEN [user |-> user.emailConfig.user, pass |-> user.emailConfig.pass]
    ELSE [user |-> mail.SMTP_USER, pass |-> mail.SMTP_PASS]

\* createTransporter throws when a credential is empty
createTransporterThrows(user, mail) ==
    LET config == getEmailConfig(user, mail)
    IN  config.user = "" \/ config.pass = ""

\* a sender whose catch block throws the error on
notificationRethrows(failure, calls) ==
    [called |-> TRUE, threw |-> TRUE, sent |-> FALSE, failure |-> failure,
     calls |-> calls]

\* the catch block of sendLetterNotification: log and return
notificationCaught(failure, calls) ==
    [called |-> TRUE, threw |-> FALSE, sent |-> FALSE, failure |-> failure,
     calls |-> calls]

\* a sender that tries a second time
sendMailTwice(calls) == calls \o <<"sendMail", "sendMail">>

\* await transporter.sendMail(mailOptions)
transporterSendMail(calls) == Append(calls, "sendMail")

\* sendLetterNotification(user, letter): what became of it, and the calls of
\* transporter.sendMail it issued
sendLetterNotification(user, letter, mail) ==
    IF ~truthy(user.email)
    THEN [called |-> TRUE, threw |-> FALSE, sent |-> FALSE, failure |-> "noEmail",
          calls |-> <<>>]
    ELSE IF createTransporterThrows(user, mail)
    THEN notificationCaught("SMTP credentials not configured", <<>>)
    ELSE IF ~mail.fileExists
    THEN notificationCaught("File not found", <<>>)
    ELSE IF mail.sendMail # "ok"
    THEN notificationCaught(mail.sendMail, transporterSendMail(<<>>))
    ELSE [called |-> TRUE, threw |-> FALSE, sent |-> TRUE, failure |-> "none",
          calls |-> transporterSendMail(<<>>)]

---------------------------------------------------------------------------
(* POST /api/mail-items: multer's stored name and the handler               *)

\* file.fieldname + '-' + Date.now() + ext
uniqueName(originalname, now) ==
    <<"file", "-", ToString(now)>> \o extname(originalname)

noItem == [id |-> 0]

\* a response sent by a route handler
respond(status, error, item) ==
    [status |-> status, error |-> error, item |-> item, handler |-> TRUE]

\* a response sent by authenticateToken, which does not call next()
rejected(auth) ==
    [status |-> auth.status, error |-> auth.error, item |-> noItem, handler |-> FALSE]

\* multer's diskStorage writes uploads/<name>, replacing a file of that name
writeFile(dir, name, owner) ==
    {f \in dir : f.name # name} \cup {[name |-> name, owner |-> owner]}

\* the handler behind authenticateToken and upload.single('file')
postMailItem(userId, file, originalname, env, date, table, mail, id, now) ==
    IF file = "absent"
    THEN [res |-> respond(400, "No file uploaded", noItem), created |-> FALSE,
          notified |-> NoNotification]
    ELSE
    LET a    == analyzeDocument(originalname, env, date)
        data == mailItemData(userId, originalname, uniqueName(originalname, now), a.result)
    IN  IF a.threw \/ ~insertMailItemSchemaOk(data)
        THEN [res |-> respond(500, "Failed to create mail item", noItem),
              created |-> FALSE, notified |-> NoNotification]
        ELSE
        LET newItem == createMailItem(data, id, now)
            user    == getUser(table, userId)
        IN  [res |-> respond(201, "none", newItem), created |-> TRUE,
             notified |-> IF user.found
                          THEN sendLetterNotification(user.row, newItem, mail)
                          ELSE NoNotification]

---------------------------------------------------------------------------
(* SpecUpload: one POST /api/mail-items for every combination of token,     *)
(* file, analysis outcomes, addressee and mail outcomes                     *)

a_at_b_c == <<"a", "@", "b", ".", "c">>

userRow(id, email) ==
    [id |-> id, email |-> email, firstName |-> JsNull, lastName |-> JsNull,
     provider |-> "google", passwordHash |-> JsNull, emailVerified |-> FALSE]

UploadUsers == {{userRow("u1", e)} : e \in {JsNull, JsString(a_at_b_c)}}

UploadNames == {letter_jpg, scan_PDF}

UploadEnvs(name) ==
    {e \in Envs(name) :
        /\ e.convert \in {"ok", "throws"}
        /\ e.ocr.error \in {"none", "quota"}
        /\ e.ocr.content.t = IF e.ocr.ok THEN "string" ELSE "null"
        /\ e.ocr.content.v \in {<<>>, <<"Dear", " ", "customer", "\n">>}
        /\ e.ocr.ok => e.ocr.content.v # <<>>}

someEnv == CHOOSE e \in UploadEnvs(letter_jpg) : e.readFile = "throws"

MailOutcomes ==
    [SMTP_USER : {"", "posty@b.c"}, SMTP_PASS : {"", "secret"},
     fileExists : BOOLEAN, sendMail : {"ok", "ECONNREFUSED", "EAUTH"}]

someMail == CHOOSE m \in MailOutcomes : m.SMTP_USER = ""

uploadRequest(token, file) ==
    [route |-> "POST /api/mail-items", token |-> token, file |-> file]

\* the requests that reach the analysis, and those that end before it
InitUpload ==
    /\ today = Date(2024, 12, 18)
    /\ OAuthIdle
    /\ \/ /\ request = uploadRequest(tokenOf("u1"), "accepted")
          /\ fileName \in UploadNames
          /\ outcomes \in UploadEnvs(fileName)
          /\ users \in UploadUsers
          /\ mailer \in MailOutcomes
       \/ /\ request \in {uploadRequest(noToken, "accepted"),
                          uploadRequest(invalidToken, "accepted"),
                          uploadRequest(tokenOf("u2"), "accepted"),
                          uploadRequest(tokenOf("u1"), "absent")}
          /\ fileName = letter_jpg
          /\ outcomes = someEnv
          /\ users \in UploadUsers
          /\ mailer = someMail
    /\ analysisResult = NoAnalysis
    /\ userSettings = {} /\ mailItems = {} /\ nextId = 1 /\ clock = 1
    /\ lastCall = NoCall
    /\ uploads = {}
    /\ pc = <<>>
    /\ response = NoResponse
    /\ notification = NoNotification
    /\ FallbackIdle

\* POST /api/mail-items: authenticateToken, upload.single('file'), the handler
handlePost(token, file, originalname, env, mail) ==
    LET auth == authenticateToken(token, users)
    IN  IF ~auth.next
        THEN /\ response' = rejected(auth)
             /\ lastCall' = NoCall
             /\ UNCHANGED <<mailItems, nextId, notification, uploads>>
        ELSE LET r == postMailItem(auth.userId, file, originalname, env, today,
                                   users, mail, nextId, clock)
             IN  /\ response' = r.res
                 /\ uploads' = IF file = "accepted"
                               THEN writeFile(uploads, uniqueName(originalname, clock),
                                              auth.userId)
                               ELSE uploads
                 /\ mailItems' = IF r.created THEN mailItems \cup {r.res.item}
                                 ELSE mailItems
                 /\ nextId' = IF r.created THEN nextId + 1 ELSE nextId
                 /\ lastCall' = IF r.created
                                THEN [op |-> "createMailItem", userId |-> auth.userId,
                                      rows |-> <<r.res.item>>]
                                ELSE NoCall
                 /\ notification' = r.notified

PostMailItems ==
    /\ request.route = "POST /api/mail-items"
    /\ response.status = 0
    /\ handlePost(request.token, request.file, fileName, outcomes, mailer)
    /\ UNCHANGED <<inputVars, oauthVars, fallbackVars, analyzeVars, users, userSettings,
                   clock, request, pc, mailer>>

NextUpload == PostMailItems

SpecUpload == InitUpload /\ [][NextUpload]_vars

accepted ==
    /\ response.status # 0
    /\ authenticateToken(request.token, users).next
    /\ request.file = "accepted"

\* C5: an authenticated POST /api/mail-items whose file was accepted is
\* answered 201 with the created record, whatever the AI did: unavailable,
\* an error, malformed JSON, or JSON whose title, summary, category or
\* reminderDate is missing or of an unexpected type.
C5_AcceptedUploadAnswers201 ==
    accepted => /\ response.status = 201
                /\ response.item \in mailItems

\* C6: when the notification fails (no e-mail address, no SMTP credentials,
\* attachment missing on disk, SMTP connection or authentication error),
\* sendLetterNotification returns without throwing, the upload is answered
\* 201 and the created row exists.
C6_NotificationFailureIsSwallowed ==
    (notification.called /\ ~notification.sent) =>
        /\ ~notification.threw
        /\ response.status = 201
        /\ response.item \in mailItems
        /\ response.item.userId = "u1"

\* the attachment is missing on disk although the credentials are set
C6_Witness ==
    /\ notification.called
    /\ notification.failure = "File not found"
    /\ response.status = 201
    /\ mailItems # {}

---------------------------------------------------------------------------
(* SpecStore: two users call the mail-item methods of DatabaseStorage in    *)
(* any order                                                                *)

MaxItems == 2

Callers == {"u1", "u2"}

StoreUsers == {userRow(u, JsNull) : u \in Callers}

Tax      == <<"T", "a", "x">>
Fifty    == <<"5", "0", "%">>
tax_2024 == <<"t", "a", "x", "_", "2", "0", "2", "4">>

insertMailItem(userId, title, category, extractedText) ==
    [userId |-> userId, title |-> JsString(title), summary |-> JsString(<<"s">>),
     category |-> category, reminderDate |-> JsNull,
     imageUrl |-> uploadsUrl("f"), fileName |-> <<"f">>,
     extractedText |-> extractedText]

InsertMailItems ==
    {insertMailItem(u, Tax, "bill", JsNull) : u \in Callers}
    \cup {insertMailItem(u, Fifty, "nhs", JsString(tax_2024)) : u \in Callers}

\* Partial<InsertMailItem>: a title, an owner, nothing
UpdateSets ==
    {[title |-> JsString(Fifty)], <<>>}
    \cup {[userId |-> u] : u \in Callers}

Queries == {<<"t", "A">>, <<"%">>, <<"_", "x">>, <<"n", "h">>}

call(op, userId, rows) == [op |-> op, userId |-> userId, rows |-> rows]

\* a call, its argument, the rows it returned, whether it threw, and the
\* tables before it (kept for an account deletion, and for an update or a
\* delete that matched no row or threw)
storeCall(op, userId, arg, rows, thrown, before) ==
    [op |-> op, userId |-> userId, arg |-> arg, rows |-> rows, threw |-> thrown,
     before |-> before]

\* the columns of user_settings and their declared defaults
UserSettingsColumns ==
    {"userId", "theme", "language", "timezone", "emailNotifications",
     "reminderNotifications", "weeklyDigest", "autoDeleteOldItems"}

settingsColumnDefault(column) ==
    CASE column = "theme" -> "system"
      [] column = "language" -> "en"
      [] column = "timezone" -> "UTC"
      [] column \in {"emailNotifications", "reminderNotifications"} -> TRUE
      [] OTHER -> FALSE

\* the row an insert into user_settings stores: a key that names no column
\* is left out, a column that is not given takes its default
settingsRow(settingsData) ==
    [c \in UserSettingsColumns |->
        IF c \in DOMAIN settingsData THEN settingsData[c]
                                      ELSE settingsColumnDefault(c)]

tablesNow ==
    [taken |-> TRUE, users |-> users, mailItems |-> mailItems,
     userSettings |-> userSettings]

noSnapshot == [taken |-> FALSE]

defaultSettings(userId) == settingsRow([userId |-> userId, theme |-> "light"])

InitStore ==
    /\ users = StoreUsers
    /\ userSettings = {defaultSettings(u) : u \in Callers}
    /\ mailItems = {}
    /\ nextId = 1
    /\ clock = 1
    /\ lastCall = NoCall
    /\ uploads = {}
    /\ fileName = <<>>
    /\ today = Date(2024, 12, 18)
    /\ OAuthIdle
    /\ FallbackIdle
    /\ AnalyzeIdle
    /\ HttpIdle
    /\ MailIdle

notStore == <<inputVars, oauthVars, fallbackVars, analyzeVars, httpVars, mailVars, uploads>>

\* storage.createMailItem(insertMailItem); the sequence advances even when
\* the insert fails; the next insert happens at the same instant or later
CreateMailItem ==
    /\ nextId <= MaxItems
    /\ \E data \in InsertMailItems :
        LET item == createMailItem(data, nextId, clock)
        IN  IF createMailItemThrows(users, data)
            THEN /\ lastCall' = storeCall("createMailItem", data.userId, data, <<>>,
                                          TRUE, noSnapshot)
                 /\ UNCHANGED mailItems
            ELSE /\ mailItems' = mailItems \cup {item}
                 /\ lastCall' = storeCall("createMailItem", data.userId, data, <<item>>,
                                          FALSE, noSnapshot)
    /\ nextId' = nextId + 1
    /\ clock' \in {clock, clock + 1}
    /\ UNCHANGED <<notStore, users, userSettings>>

\* storage.updateMailItem(id, userId, updates)
UpdateMailItem ==
    /\ \E id \in 1..MaxItems, u \in Callers, updates \in UpdateSets :
        LET item == getMailItem(mailItems, id, u)
            arg  == [id |-> id, updates |-> updates]
        IN  IF updateMailItemThrows(mailItems, users, id, u, updates)
            THEN /\ lastCall' = storeCall("updateMailItem", u, arg, <<>>, TRUE, tablesNow)
                 /\ UNCHANGED mailItems
            ELSE /\ mailItems' = updateMailItem(mailItems, id, u, updates)
                 /\ lastCall' = storeCall("updateMailItem", u, arg,
                                    IF item.found THEN <<applyUpdates(item.row, updates)>>
                                    ELSE <<>>,
                                    FALSE, IF item.found THEN noSnapshot ELSE tablesNow)
    /\ UNCHANGED <<notStore, users, userSettings, nextId, clock>>

\* storage.deleteMailItem(id, userId): true when a row was deleted
DeleteMailItem ==
    /\ \E id \in 1..MaxItems, u \in Callers :
        /\ mailItems' = deleteMailItem(mailItems, id, u)
        /\ lastCall' = storeCall("deleteMailItem", u, [id |-> id],
                                 IF getMailItem(mailItems, id, u).found
                                 THEN <<getMailItem(mailItems, id, u).row>> ELSE <<>>,
                                 FALSE,
                                 IF getMailItem(mailItems, id, u).found THEN noSnapshot
                                 ELSE tablesNow)
    /\ UNCHANGED <<notStore, users, userSettings, nextId, clock>>

\* storage.deleteAllMailItems(userId)
DeleteAllMailItems ==
    /\ \E u \in Callers :
        /\ mailItems' = deleteAllMailItems(mailItems, u)
        /\ lastCall' = storeCall("deleteAllMailItems", u, <<>>, <<>>, FALSE, noSnapshot)
    /\ UNCHANGED <<notStore, users, userSettings, nextId, clock>>

\* storage.deleteUserAccount(userId): true when a users row was deleted
DeleteUserAccount ==
    /\ \E u \in Callers :
        LET after == deleteUserAccount(tablesNow, u)
        IN  /\ users' = after.users
            /\ mailItems' = after.mailItems
            /\ userSettings' = after.userSettings
            /\ lastCall' = storeCall("deleteUserAccount", u, <<>>, <<>>, FALSE, tablesNow)
    /\ UNCHANGED <<notStore, nextId, clock>>

\* storage.getAllMailItems(userId)
GetAllMailItems ==
    /\ \E u \in Callers : \E rows \in getAllMailItems(mailItems, u) :
        lastCall' = storeCall("getAllMailItems", u, <<>>, rows, FALSE, noSnapshot)
    /\ UNCHANGED <<notStore, users, userSettings, mailItems, nextId, clock>>

\* storage.getMailItem(id, userId)
GetMailItem ==
    /\ \E id \in 1..MaxItems, u \in Callers :
        lastCall' = storeCall("getMailItem", u, [id |-> id],
                              IF getMailItem(mailItems, id, u).found
                              THEN <<getMailItem(mailItems, id, u).row>> ELSE <<>>,
                              FALSE, noSnapshot)
    /\ UNCHANGED <<notStore, users, userSettings, mailItems, nextId, clock>>

\* storage.searchMailItems(query, userId)
SearchMailItems ==
    /\ \E q \in Queries, u \in Callers : \E rows \in searchMailItems(mailItems, q, u) :
        lastCall' = storeCall("searchMailItems", u, q, rows, FALSE, noSnapshot)
    /\ UNCHANGED <<notStore, users, userSettings, mailItems, nextId, clock>>

\* storage.getMailItemsByCategory(category, userId)
GetMailItemsByCategory ==
    /\ \E c \in {"bill", "nhs"}, u \in Callers :
       \E rows \in getMailItemsByCategory(mailItems, c, u) :
        lastCall' = storeCall("getMailItemsByCategory", u, c, rows, FALSE, noSnapshot)
    /\ UNCHANGED <<notStore, users, userSettings, mailItems, nextId, clock>>

NextStore ==
    \/ CreateMailItem
    \/ UpdateMailItem
    \/ DeleteMailItem
    \/ DeleteAllMailItems
    \/ DeleteUserAccount
    \/ GetAllMailItems
    \/ GetMailItem
    \/ SearchMailItems
    \/ GetMailItemsByCategory

SpecStore == InitStore /\ [][NextStore]_vars

QueryOps ==
    {"getAllMailItems", "getMailItem", "searchMailItems", "getMailItemsByCategory"}

\* C1: whatever createMailItem, updateMailItem, deleteMailItem and
\* deleteAllMailItems calls two users have made, each of getAllMailItems(u),
\* getMailItem(id, u), searchMailItems(q, u) and getMailItemsByCategory(c, u)
\* returns only rows whose userId equals u.
C1_QueriesReturnOwnRowsOnly ==
    lastCall.op \in QueryOps =>
        \A i \in DOMAIN lastCall.rows : lastCall.rows[i].userId = lastCall.userId

\* a search answers a row of its caller while the other user owns a row too,
\* one that was updated before
C1_Witness ==
    /\ lastCall.op = "searchMailItems"
    /\ lastCall.rows # <<>>
    /\ \E r \in mailItems : r.userId # lastCall.userId /\ r.title = JsString(Fifty)
                            /\ r.category = "bill"

---------------------------------------------------------------------------
(* SpecApi: clients with and without a token call the mail-item routes and  *)
(* fetch files under /uploads, in any order                                 *)

Tokens == {noToken, tokenOf("u1"), tokenOf("u2")}

\* the AI is down; the classification is complete; its title is a number
ApiEnvs ==
    {someEnv}
    \cup {e \in UploadEnvs(letter_jpg) :
            /\ e.readFile = "ok" /\ e.ocr.ok
            /\ e.classify.content = "object"
            /\ e.classify.obj.title \in {JsNumber, JsString(<<"Gas bill">>)}}

\* request bodies of PATCH
PatchBodies ==
    {[title |-> JsString(Fifty)], <<>>} \cup {[userId |-> u] : u \in Callers}

\* the module binds storage; the name dataStorage is bound nowhere, so
\* evaluating it throws a ReferenceError
dataStorageIsBound == FALSE

respondList(rows) ==
    [status |-> 200, error |-> "none", item |-> noItem, items |-> rows, handler |-> TRUE]

InitApi ==
    /\ users = StoreUsers
    /\ userSettings = {}
    /\ mailItems = {}
    /\ nextId = 1
    /\ clock = 1
    /\ lastCall = NoCall
    /\ uploads = {}
    /\ fileName = letter_jpg
    /\ today = Date(2024, 12, 18)
    /\ OAuthIdle
    /\ outcomes = someEnv
    /\ analysisResult = NoAnalysis
    /\ mailer = someMail
    /\ notification = NoNotification
    /\ request = NoRequest
    /\ response = NoResponse
    /\ pc = <<>>
    /\ FallbackIdle

apiFixed == <<today, oauthVars, fallbackVars, analysisResult, users, userSettings, mailer, pc>>

\* authenticateToken answers and does not call next(): no handler runs
reject(auth) ==
    /\ response' = rejected(auth)
    /\ lastCall' = NoCall
    /\ UNCHANGED mailItems

\* GET /api/mail-items
ListMailItems ==
    /\ \E token \in Tokens :
        /\ request' = [route |-> "GET /api/mail-items", token |-> token]
        /\ LET auth == authenticateToken(token, users)
           IN  IF ~auth.next THEN reject(auth)
               ELSE \E rows \in getAllMailItems(mailItems, auth.userId) :
                        /\ response' = respondList(rows)
                        /\ lastCall' = call("getAllMailItems", auth.userId, rows)
                        /\ UNCHANGED mailItems
    /\ notification' = NoNotification
    /\ UNCHANGED <<apiFixed, fileName, outcomes, nextId, clock, uploads>>

\* GET /api/mail-items/:id
GetMailItemById ==
    /\ \E token \in Tokens, id \in 1..MaxItems :
        /\ request' = [route |-> "GET /api/mail-items/:id", token |-> token, id |-> id]
        /\ LET auth == authenticateToken(token, users)
               item == getMailItem(mailItems, id, auth.userId)
           IN  IF ~auth.next THEN reject(auth)
               ELSE /\ response' = IF item.found THEN respond(200, "none", item.row)
                                   ELSE respond(404, "Mail item not found", noItem)
                    /\ lastCall' = call("getMailItem", auth.userId,
                                        IF item.found THEN <<item.row>> ELSE <<>>)
                    /\ UNCHANGED mailItems
    /\ notification' = NoNotification
    /\ UNCHANGED <<apiFixed, fileName, outcomes, nextId, clock, uploads>>

\* POST /api/mail-items; the next upload arrives at a later instant
UploadMailItem ==
    /\ clock <= MaxItems
    /\ \E token \in Tokens, file \in {"accepted", "absent"}, env \in ApiEnvs :
        /\ request' = uploadRequest(token, file)
        /\ handlePost(token, file, fileName, env, mailer)
    /\ clock' = clock + 1
    /\ UNCHANGED <<apiFixed, fileName, outcomes>>

\* the call of storage.updateMailItem, with the row as it was before
patched(userId, item, updated) ==
    [op |-> "updateMailItem", userId |-> userId,
     rows |-> IF item.found THEN <<updated>> ELSE <<>>,
     before |-> IF item.found THEN <<item.row>> ELSE <<>>]

\* PATCH /api/mail-items/:id
PatchMailItem ==
    /\ \E token \in Tokens, id \in 1..MaxItems, updates \in PatchBodies :
        /\ request' = [route |-> "PATCH /api/mail-items/:id", token |-> token, id |-> id,
                       body |-> updates]
        /\ LET auth == authenticateToken(token, users)
               item == getMailItem(mailItems, id, auth.userId)
               updated == applyUpdates(item.row, updates)
           IN  IF ~auth.next THEN reject(auth)
               ELSE IF updateMailItemThrows(mailItems, users, id, auth.userId, updates)
               THEN /\ UNCHANGED mailItems
                    /\ response' = respond(500, "Failed to update mail item", noItem)
                    /\ lastCall' = call("updateMailItem", auth.userId, <<>>)
               ELSE /\ mailItems' = updateMailItem(mailItems, id, auth.userId, updates)
                    /\ response' = IF item.found THEN respond(200, "none", updated)
                                   ELSE respond(404, "Mail item not found", noItem)
                    /\ lastCall' = patched(auth.userId, item, updated)
    /\ notification' = NoNotification
    /\ UNCHANGED <<apiFixed, fileName, outcomes, nextId, clock, uploads>>

\* DELETE /api/mail-items/:id
DeleteMailItemById ==
    /\ \E token \in Tokens, id \in 1..MaxItems :
        /\ request' = [route |-> "DELETE /api/mail-items/:id", token |-> token, id |-> id]
        /\ LET auth == authenticateToken(token, users)
           IN  IF ~auth.next THEN reject(auth)
               ELSE /\ mailItems' = deleteMailItem(mailItems, id, auth.userId)
                    /\ response' = IF getMailItem(mailItems, id, auth.userId).found
                                   THEN respond(200, "none", noItem)
                                   ELSE respond(404, "Mail item not found", noItem)
                    /\ lastCall' = call("deleteMailItem", auth.userId, <<>>)
    /\ notification' = NoNotification
    /\ UNCHANGED <<apiFixed, fileName, outcomes, nextId, clock, uploads>>

\* a handler registered without authenticateToken whose first statement
\* evaluates dataStorage
unguardedDataStorage(error) ==
    /\ ~dataStorageIsBound
    /\ response' = respond(500, error, noItem)
    /\ lastCall' = NoCall
    /\ UNCHANGED mailItems

\* GET /api/mail-items/search/:query
SearchRoute ==
    /\ \E token \in Tokens, q \in {Tax} :
        /\ request' = [route |-> "GET /api/mail-items/search/:query", token |-> token,
                       query |-> q]
        /\ unguardedDataStorage("Failed to search mail items")
    /\ notification' = NoNotification
    /\ UNCHANGED <<apiFixed, fileName, outcomes, nextId, clock, uploads>>

\* GET /api/mail-items/category/:category
CategoryRoute ==
    /\ \E token \in Tokens, c \in {"bill"} :
        /\ request' = [route |-> "GET /api/mail-items/category/:category",
                       token |-> token, category |-> c]
        /\ unguardedDataStorage("Failed to fetch mail items by category")
    /\ notification' = NoNotification
    /\ UNCHANGED <<apiFixed, fileName, outcomes, nextId, clock, uploads>>

\* GET /uploads/:name, answered by express.static('uploads')
ServeUpload ==
    /\ \E token \in Tokens, now \in 1..MaxItems :
        LET name == uniqueName(fileName, now)
            hit  == {f \in uploads : f.name = name}
        IN  /\ request' = [route |-> "GET /uploads/:name", token |-> token, name |-> name]
            /\ response' = IF hit = {}
                           THEN [status |-> 404, error |-> "Not Found", handler |-> FALSE]
                           ELSE [status |-> 200, error |-> "none", handler |-> FALSE,
                                 file |-> CHOOSE f \in hit : TRUE]
    /\ lastCall' = NoCall
    /\ notification' = NoNotification
    /\ UNCHANGED <<apiFixed, fileName, outcomes, mailItems, nextId, clock, uploads>>

NextApi ==
    \/ ListMailItems
    \/ GetMailItemById
    \/ UploadMailItem
    \/ PatchMailItem
    \/ DeleteMailItemById
    \/ SearchRoute
    \/ CategoryRoute
    \/ ServeUpload

SpecApi == InitApi /\ [][NextApi]_vars

MailItemRoutes ==
    {"GET /api/mail-items", "GET /api/mail-items/:id", "POST /api/mail-items",
     "PATCH /api/mail-items/:id", "DELETE /api/mail-items/:id",
     "GET /api/mail-items/search/:query", "GET /api/mail-items/category/:category"}

\* C2: every /api/mail-items route (list, get-by-id, create, update, delete,
\* search/:query, category/:category) runs its handler only for an
\* authenticated request and passes the authenticated user's id to the
\* storage call.
C2_MailRoutesRunOnlyAuthenticated ==
    (request.route \in MailItemRoutes /\ response.handler) =>
        /\ authenticateToken(request.token, users).next
        /\ lastCall.op # "none" =>
                lastCall.userId = authenticateToken(request.token, users).userId

\* C3: a file stored by a user's upload is served under /uploads only to
\* requests authenticated as that user.
C3_UploadsServedToOwnerOnly ==
    (request.route = "GET /uploads/:name" /\ response.status = 200) =>
        /\ authenticateToken(request.token, users).next
        /\ authenticateToken(request.token, users).userId = response.file.owner

---------------------------------------------------------------------------
(* E-mail registration: generateUserId, the users and user_settings tables, *)
(* createEmailUser and POST /api/auth/register                              *)

\* String.prototype.replace(ch, by) with a string pattern: the first
\* occurrence only
replaceFirst(s, ch, by) ==
    IF \E i \in DOMAIN s : s[i] = ch
    THEN LET i == CHOOSE k \in DOMAIN s : s[k] = ch /\ \A j \in 1..(k - 1) : s[j] # ch
         IN  [s EXCEPT ![i] = by]
    ELSE s

\* generateUserId("email", undefined, email)
generateUserId(email) ==
    <<"e", "m", "a", "i", "l", "_">> \o replaceFirst(replaceFirst(email, "@", "_"), ".", "_")

\* bcrypt.hash(password, 12): the salt is drawn anew for every call
bcryptHash(password, salt) == JsString(<<"$2a$12$", salt>> \o password)

\* select from users where email = :email
getUserByEmail(table, email) ==
    IF \E u \in table : u.email = JsString(email)
    THEN foundRow(CHOOSE u \in table : u.email = JsString(email))
    ELSE undefinedRow

\* the columns of users and what an insert stores in one it is not given
UserColumns ==
    {"id", "email", "firstName", "lastName", "provider", "passwordHash",
     "emailVerified"}

userColumnDefault(column) ==
    IF column = "emailVerified" THEN FALSE ELSE JsNull

\* insert into users ... on conflict (id) do update set ...userData: a new
\* row takes the column defaults for what userData leaves out, a row that
\* exists keeps what it had there; the unique index on email rejects an
\* address another row holds
upsertUser(table, userData) ==
    LET given == DOMAIN userData
        stored ==
            IF \E u \in table : u.id = userData.id
            THEN LET kept == CHOOSE u \in table : u.id = userData.id
                 IN  [c \in UserColumns |->
                         IF c \in given THEN userData[c] ELSE kept[c]]
            ELSE [c \in UserColumns |->
                     IF c \in given THEN userData[c] ELSE userColumnDefault(c)]
    IN  IF /\ "email" \in given
           /\ userData.email.t = "string"
           /\ \E u \in table : u.id # userData.id /\ u.email = userData.email
        THEN [threw |-> TRUE, table |-> table, user |-> userData]
        ELSE [threw |-> FALSE,
              table |-> {u \in table : u.id # userData.id} \cup {stored},
              user |-> stored]

\* insert into user_settings: user_id is the primary key
createUserSettings(table, settingsData) ==
    IF \E row \in table : row.userId = settingsData.userId
    THEN [threw |-> TRUE, table |-> table]
    ELSE [threw |-> FALSE, table |-> table \cup {settingsRow(settingsData)}]

\* update user_settings set ...updates where user_id = :userId, returning:
\* only columns of the table are set; undefined when no row matched
updateUserSettings(table, userId, updates) ==
    IF \E row \in table : row.userId = userId
    THEN LET old == CHOOSE row \in table : row.userId = userId
             updated == [c \in UserSettingsColumns |->
                            IF c \in DOMAIN updates THEN updates[c] ELSE old[c]]
         IN  [found |-> TRUE, row |-> updated,
              table |-> (table \ {old}) \cup {updated}]
    ELSE [found |-> FALSE, table |-> table]

\* z.string().email(): one "@" with text before it and a dotted domain after
isEmail(s) ==
    \E i \in DOMAIN s :
        /\ s[i] = "@" /\ i > 1
        /\ \A j \in DOMAIN s : s[j] = "@" => j = i
        /\ \E k \in (i + 2)..(Len(s) - 1) : s[k] = "."

\* emailRegistrationSchema.parse(req.body) succeeds
emailRegistrationSchemaOk(body) ==
    /\ isEmail(body.email)
    /\ Len(body.password) >= 8
    /\ Len(body.firstName) >= 1
    /\ Len(body.lastName) >= 1

---------------------------------------------------------------------------
(* SpecRegister: concurrent POST /api/auth/register requests for one e-mail *)
(* address; a request yields at each await of its handler                   *)

MaxRequests == 2

Requests == 1..MaxRequests

password1 == <<"p", "a", "s", "s", "w", "o", "r", "d">>
password2 == <<"1", "2", "3", "4", "5", "6", "7", "8">>
tooShort  == <<"p", "w">>

registrationBody(password, firstName) ==
    [email |-> a_at_b_c, password |-> password, firstName |-> firstName,
     lastName |-> <<"L">>]

RegistrationBodies ==
    {registrationBody(pw, fn) : pw \in {password1, password2, tooShort},
                                fn \in {<<"A">>, <<"B">>}}

noUser == [id |-> <<>>]

registerResponse(status, error, user) ==
    [status |-> status, error |-> error, user |-> user]

InitRegister ==
    /\ request \in [Requests -> RegistrationBodies]
    /\ response = [r \in Requests |-> registerResponse(0, "none", noUser)]
    /\ pc = [r \in Requests |-> "parse"]
    /\ users = {}
    /\ userSettings = {}
    /\ mailItems = {} /\ nextId = 1 /\ clock = 1 /\ lastCall = NoCall /\ uploads = {}
    /\ fileName = <<>>
    /\ today = Date(2024, 12, 18)
    /\ OAuthIdle
    /\ FallbackIdle
    /\ AnalyzeIdle
    /\ MailIdle

notRegister ==
    <<inputVars, oauthVars, fallbackVars, analyzeVars, mailVars, mailItems, nextId, clock, lastCall,
      uploads, request>>

finish(r, status, error, user) ==
    /\ response' = [response EXCEPT ![r] = registerResponse(status, error, user)]
    /\ pc' = [pc EXCEPT ![r] = "done"]

\* emailRegistrationSchema.parse(req.body), then await storage.getUserByEmail
RegisterLookup ==
    \E r \in Requests :
        /\ pc[r] = "parse"
        /\ IF ~emailRegistrationSchemaOk(request[r])
           THEN finish(r, 400, "Invalid input data", noUser)
           ELSE IF getUserByEmail(users, request[r].email).found
           THEN finish(r, 400, "User already exists", noUser)
           ELSE /\ pc' = [pc EXCEPT ![r] = "upsert"]
                /\ UNCHANGED response
        /\ UNCHANGED <<notRegister, users, userSettings>>

\* createEmailUser: await bcrypt.hash, then await storage.upsertUser
RegisterUpsert ==
    \E r \in Requests :
        /\ pc[r] = "upsert"
        /\ LET body == request[r]
               userData == [id |-> generateUserId(body.email),
                            email |-> JsString(body.email),
                            firstName |-> JsString(body.firstName),
                            lastName |-> JsString(body.lastName),
                            provider |-> "email",
                            passwordHash |-> bcryptHash(body.password, ToString(r)),
                            emailVerified |-> FALSE]
               done == upsertUser(users, userData)
           IN  IF done.threw
               THEN /\ finish(r, 500, "Registration failed", noUser)
                    /\ UNCHANGED users
               ELSE /\ users' = done.table
                    /\ response' = [response EXCEPT ![r] =
                                        registerResponse(0, "none", done.user)]
                    /\ pc' = [pc EXCEPT ![r] = "settings"]
        /\ UNCHANGED <<notRegister, userSettings>>

\* createEmailUser: await storage.createUserSettings, generateToken; the
\* handler sets the cookie and answers
RegisterSettings ==
    \E r \in Requests :
        /\ pc[r] = "settings"
        /\ LET done == createUserSettings(userSettings,
                            [userId |-> response[r].user.id, theme |-> "light"])
           IN  IF done.threw
               THEN /\ finish(r, 500, "Registration failed", noUser)
                    /\ UNCHANGED userSettings
               ELSE /\ userSettings' = done.table
                    /\ finish(r, 200, "none", response[r].user)
        /\ UNCHANGED <<notRegister, users>>

NextRegister == RegisterLookup \/ RegisterUpsert \/ RegisterSettings

SpecRegister == InitRegister /\ [][NextRegister]_vars

succeeded(r) == pc[r] = "done" /\ response[r].status = 200

\* C10: for any interleaving of POST /api/auth/register requests that carry
\* the same e-mail address, at most one responds with success; every other
\* one responds 400 "User already exists" and leaves the stored user record,
\* including its password hash, unchanged.
C10_OneRegistrationWins ==
    \A r \in Requests :
        succeeded(r) =>
            /\ getUser(users, response[r].user.id).found
            /\ getUser(users, response[r].user.id).row = response[r].user
            /\ \A o \in Requests \ {r} :
                (pc[o] = "done" /\ emailRegistrationSchemaOk(request[o])) =>
                    /\ response[o].status = 400
                    /\ response[o].error = "User already exists"

---------------------------------------------------------------------------
(* SpecAccounts: POST /api/auth/register and PUT /api/profile, one request  *)
(* after the other                                                           *)

\* two addresses that differ only in where "." and "_" stand, and a third
a_dot_b   == <<"a", ".", "b", "_", "c", "@", "d", ".", "e", "e">>
a_under_b == <<"a", "_", "b", ".", "c", "@", "d", ".", "e", "e">>

Emails == {a_dot_b, a_under_b, a_at_b_c}

Salts == {"s1", "s2"}

\* generateToken(user)
generateToken(user) == tokenOf(user.id)

accountResponse(status, error, user, token) ==
    [status |-> status, error |-> error, user |-> user, token |-> token]

\* update users set ...updates where id = :userId returning *; the unique
\* index on email rejects an address another row holds
updateUserProfile(table, userId, updates) ==
    IF \E u \in table : u.id = userId
    THEN IF \E u \in table : u.id # userId /\ u.email = updates.email
         THEN [threw |-> TRUE, table |-> table, found |-> FALSE]
         ELSE [threw |-> FALSE,
               table |-> {IF u.id = userId
                          THEN [u EXCEPT !.email = updates.email,
                                         !.firstName = updates.firstName,
                                         !.lastName = updates.lastName]
                          ELSE u : u \in table},
               found |-> TRUE]
    ELSE [threw |-> FALSE, table |-> table, found |-> FALSE]

\* createEmailUser(email, password, firstName, lastName): the tables after
\* it, and the user and token it returns unless it threw
createEmailUser(body, salt, usersTable, settingsTable) ==
    LET userData == [id |-> generateUserId(body.email),
                     email |-> JsString(body.email),
                     firstName |-> JsString(body.firstName),
                     lastName |-> JsString(body.lastName),
                     provider |-> "email",
                     passwordHash |-> bcryptHash(body.password, salt),
                     emailVerified |-> FALSE]
        upserted == upsertUser(usersTable, userData)
        settings == createUserSettings(settingsTable,
                        [userId |-> userData.id, theme |-> "light"])
    IN  IF upserted.threw
        THEN [threw |-> TRUE, users |-> usersTable, userSettings |-> settingsTable,
              user |-> noUser, token |-> noToken]
        ELSE IF settings.threw
        THEN [threw |-> TRUE, users |-> upserted.table, userSettings |-> settingsTable,
              user |-> noUser, token |-> noToken]
        ELSE [threw |-> FALSE, users |-> upserted.table, userSettings |-> settings.table,
              user |-> upserted.user, token |-> generateToken(upserted.user)]

\* the handler of POST /api/auth/register
postRegister(body, salt, usersTable, settingsTable) ==
    IF ~emailRegistrationSchemaOk(body)
    THEN [res |-> accountResponse(400, "Invalid input data", noUser, noToken),
          users |-> usersTable, userSettings |-> settingsTable]
    ELSE IF getUserByEmail(usersTable, body.email).found
    THEN [res |-> accountResponse(400, "User already exists", noUser, noToken),
          users |-> usersTable, userSettings |-> settingsTable]
    ELSE LET created == createEmailUser(body, salt, usersTable, settingsTable)
         IN  [res |-> IF created.threw
                      THEN accountResponse(500, "Registration failed", noUser, noToken)
                      ELSE accountResponse(200, "none", created.user, created.token),
              users |-> created.users, userSettings |-> created.userSettings]

\* the handler of PUT /api/profile, behind authenticateToken
putProfile(userId, body, usersTable) ==
    LET taken == getUserByEmail(usersTable, body.email)
        updated == updateUserProfile(usersTable, userId,
                        [email |-> JsString(body.email),
                         firstName |-> JsString(body.firstName),
                         lastName |-> JsString(body.lastName)])
    IN  IF ~isEmail(body.email) \/ Len(body.firstName) < 1 \/ Len(body.lastName) < 1
        THEN [res |-> accountResponse(400, "Validation failed", noUser, noToken),
              users |-> usersTable]
        ELSE IF taken.found /\ taken.row.id # userId
        THEN [res |-> accountResponse(400, "Email already in use", noUser, noToken),
              users |-> usersTable]
        ELSE IF updated.threw
        THEN [res |-> accountResponse(500, "Failed to update profile", noUser, noToken),
              users |-> usersTable]
        ELSE IF ~updated.found
        THEN [res |-> accountResponse(404, "User not found", noUser, noToken),
              users |-> usersTable]
        ELSE [res |-> accountResponse(200, "none",
                        CHOOSE u \in updated.table : u.id = userId, noToken),
              users |-> updated.table]

AccountBodies ==
    {[email |-> e, password |-> pw, firstName |-> <<"A">>, lastName |-> <<"L">>] :
        e \in Emails, pw \in {password1, password2, tooShort}}

InitAccounts ==
    /\ users = {}
    /\ userSettings = {}
    /\ request = NoRequest
    /\ response = NoResponse
    /\ pc = "idle"
    /\ lastCall = NoCall
    /\ mailItems = {} /\ nextId = 1 /\ clock = 1 /\ uploads = {}
    /\ fileName = <<>>
    /\ today = Date(2024, 12, 18)
    /\ OAuthIdle
    /\ FallbackIdle
    /\ AnalyzeIdle
    /\ MailIdle

notAccounts ==
    <<inputVars, oauthVars, fallbackVars, analyzeVars, mailVars, mailItems, nextId, clock, uploads, pc>>

\* POST /api/auth/register
PostRegister ==
    /\ \E body \in AccountBodies, salt \in Salts :
        LET done == postRegister(body, salt, users, userSettings)
        IN  /\ request' = [route |-> "POST /api/auth/register", body |-> body]
            /\ response' = done.res
            /\ users' = done.users
            /\ userSettings' = done.userSettings
            /\ lastCall' = storeCall("register", "nobody", body, <<>>,
                                     done.res.status = 500, tablesNow)
    /\ UNCHANGED notAccounts

\* PUT /api/profile by a signed-in user
PutProfile ==
    /\ \E u \in users, e \in Emails :
        LET body == [email |-> e, firstName |-> <<"A">>, lastName |-> <<"L">>]
            auth == authenticateToken(tokenOf(u.id), users)
            done == putProfile(auth.userId, body, users)
        IN  /\ auth.next
            /\ request' = [route |-> "PUT /api/profile", body |-> body]
            /\ response' = done.res
            /\ users' = done.users
            /\ lastCall' = storeCall("updateUserProfile", u.id, body, <<>>,
                                     done.res.status = 500, tablesNow)
    /\ UNCHANGED <<notAccounts, userSettings>>

NextAccounts == PostRegister \/ PutProfile

SpecAccounts == InitAccounts /\ [][NextAccounts]_vars

\* the last request was a registration with a valid body whose address no
\* stored user had
freshRegistration ==
    /\ lastCall.op = "register"
    /\ emailRegistrationSchemaOk(lastCall.arg)
    /\ ~getUserByEmail(lastCall.before.users, lastCall.arg.email).found

\* C15: POST /api/auth/register with an e-mail address no stored user
\* currently has never modifies an existing user record (its address or its
\* password hash) and never issues a token for an existing user's id, after
\* any sequence of registrations and profile e-mail changes and for any two
\* distinct addresses.
C15_RegistrationSparesExistingUsers ==
    freshRegistration =>
        /\ \A u \in lastCall.before.users : u \in users
        /\ \A u \in lastCall.before.users :
                response.token.kind = "valid" => response.token.userId # u.id

\* the part of C15 the code keeps: no token for an existing user's id
C15_NoTokenForExistingUser ==
    freshRegistration =>
        \A u \in lastCall.before.users :
            response.token.kind = "valid" => response.token.userId # u.id

---------------------------------------------------------------------------
(* SpecConcurrentUploads: POST /api/mail-items requests in flight together;  *)
(* multer stores the file, then the handler runs; Date.now() advances        *)
(* between any two steps or not at all                                       *)

MaxUploads == 2

MaxClock == 2

Uploaders == 1..MaxUploads

concurrentUpload(userId, originalname) ==
    [route |-> "POST /api/mail-items", token |-> tokenOf(userId),
     originalname |-> originalname, filename |-> <<>>]

InitConcurrentUploads ==
    /\ request \in [Uploaders -> {concurrentUpload(u, n) : u \in Callers, n \in UploadNames}]
    /\ response = [r \in Uploaders |-> NoResponse]
    /\ pc = [r \in Uploaders |-> "multer"]
    /\ users = StoreUsers
    /\ userSettings = {}
    /\ mailItems = {}
    /\ nextId = 1
    /\ clock = 1
    /\ lastCall = NoCall
    /\ uploads = {}
    /\ mailer = someMail
    /\ notification = NoNotification
    /\ fileName = <<>>
    /\ today = Date(2024, 12, 18)
    /\ OAuthIdle
    /\ FallbackIdle
    /\ AnalyzeIdle

notConcurrentUploads ==
    <<inputVars, oauthVars, fallbackVars, analyzeVars, users, userSettings, mailer>>

\* a millisecond passes
Tick ==
    /\ clock < MaxClock
    /\ clock' = clock + 1
    /\ UNCHANGED <<notConcurrentUploads, mailItems, nextId, lastCall, uploads, request,
                   response, pc, notification>>

\* upload.single('file'): diskStorage names the file after Date.now() and
\* writes it, the content being this upload's
MulterStore ==
    \E r \in Uploaders :
        /\ pc[r] = "multer"
        /\ authenticateToken(request[r].token, users).next
        /\ LET name == uniqueName(request[r].originalname, clock)
           IN  /\ uploads' = writeFile(uploads, name, r)
               /\ request' = [request EXCEPT ![r].filename = name]
        /\ pc' = [pc EXCEPT ![r] = "handler"]
        /\ UNCHANGED <<notConcurrentUploads, mailItems, nextId, clock, lastCall, response,
                       notification>>

\* the handler: analysis, insert (upload_date = now()), notification, 201
HandleUpload ==
    \E r \in Uploaders, env \in ApiEnvs :
        /\ pc[r] = "handler"
        /\ LET userId == request[r].token.userId
               done   == postMailItem(userId, "accepted", request[r].originalname, env,
                                      today, users, mailer, nextId, clock)
               item   == [done.res.item EXCEPT
                            !.imageUrl = uploadsUrl(request[r].filename)]
           IN  /\ response' = [response EXCEPT ![r] =
                                 IF done.created THEN respond(201, "none", item)
                                 ELSE done.res]
               /\ mailItems' = IF done.created THEN mailItems \cup {item} ELSE mailItems
               /\ nextId' = IF done.created THEN nextId + 1 ELSE nextId
               /\ lastCall' = IF done.created
                              THEN call("createMailItem", userId, <<item>>)
                              ELSE NoCall
               /\ notification' = done.notified
        /\ pc' = [pc EXCEPT ![r] = "done"]
        /\ UNCHANGED <<notConcurrentUploads, clock, uploads, request>>

NextConcurrentUploads == Tick \/ MulterStore \/ HandleUpload

SpecConcurrentUploads == InitConcurrentUploads /\ [][NextConcurrentUploads]_vars

\* C17: two concurrent uploads complete independently: each created item's
\* imageUrl names a stored file holding that upload's own content, and no
\* upload overwrites another upload's stored file.
C17_UploadsKeepTheirOwnFiles ==
    /\ \A r \in Uploaders :
        response[r].status = 201 =>
            \E f \in uploads :
                uploadsUrl(f.name) = response[r].item.imageUrl /\ f.owner = r
    /\ \A r \in Uploaders :
        pc[r] # "multer" =>
            \E f \in uploads : f.name = request[r].filename /\ f.owner = r

---------------------------------------------------------------------------
(* SpecPostSteps: one POST /api/mail-items, a step per await of its handler  *)

\* a handler that notifies before it inserts
handlerOrderNotifyFirst ==
    <<"analyze", "validate", "notify", "persist", "respond", "done">>

\* the awaits of the handler in the order of the code
handlerOrder == <<"analyze", "validate", "persist", "notify", "respond", "done">>

\* the step after a step that went through
after(step) ==
    handlerOrder[1 + CHOOSE i \in DOMAIN handlerOrder : handlerOrder[i] = step]

InitPostSteps ==
    /\ today = Date(2024, 12, 18)
    /\ OAuthIdle
    /\ request \in {uploadRequest(tokenOf("u1"), f) : f \in {"accepted", "absent"}}
    /\ fileName \in UploadNames
    /\ outcomes \in UploadEnvs(fileName)
    /\ users \in UploadUsers
    /\ mailer \in MailOutcomes
    /\ analysisResult = NoAnalysis
    /\ userSettings = {} /\ mailItems = {} /\ nextId = 1 /\ clock = 1
    /\ lastCall = NoCall
    /\ uploads = {}
    /\ pc = "start"
    /\ response = NoResponse
    /\ notification = NoNotification
    /\ FallbackIdle

postFixed == <<inputVars, oauthVars, fallbackVars, outcomes, users, userSettings, clock, request, mailer>>

\* the row the handler builds from the analysis
validatedData ==
    mailItemData(request.token.userId, fileName, uniqueName(fileName, clock),
                 analysisResult.out.result)

\* authenticateToken and upload.single('file') let the request through; the
\* handler checks req.file
StepStart ==
    /\ pc = "start"
    /\ authenticateToken(request.token, users).next
    /\ IF request.file = "absent"
       THEN /\ response' = respond(400, "No file uploaded", noItem)
            /\ pc' = "done"
            /\ UNCHANGED uploads
       ELSE /\ uploads' = writeFile(uploads, uniqueName(fileName, clock),
                                    request.token.userId)
            /\ pc' = handlerOrder[1]
            /\ UNCHANGED response
    /\ UNCHANGED <<postFixed, analysisResult, mailItems, nextId, lastCall, notification>>

\* await analyzeDocument(req.file.path, req.file.originalname)
StepAnalyze ==
    /\ pc = "analyze"
    /\ LET a == analyzeDocument(fileName, outcomes, today)
       IN  /\ analysisResult' = [done |-> TRUE, out |-> a]
           /\ IF a.threw
              THEN /\ response' = respond(500, "Failed to create mail item", noItem)
                   /\ pc' = "done"
              ELSE /\ pc' = after("analyze")
                   /\ UNCHANGED response
    /\ UNCHANGED <<postFixed, mailItems, nextId, lastCall, uploads, notification>>

\* insertMailItemSchema.parse(mailItemData)
StepValidate ==
    /\ pc = "validate"
    /\ IF insertMailItemSchemaOk(validatedData)
       THEN /\ pc' = after("validate")
            /\ UNCHANGED response
       ELSE /\ response' = respond(500, "Failed to create mail item", noItem)
            /\ pc' = "done"
    /\ UNCHANGED <<postFixed, analysisResult, mailItems, nextId, lastCall, uploads,
                   notification>>

\* await storage.createMailItem(validatedData): the row is inserted, or the
\* database rejects the statement or cannot be reached
StepPersist ==
    /\ pc = "persist"
    /\ LET newItem == createMailItem(validatedData, nextId, clock)
       IN  \/ /\ mailItems' = mailItems \cup {newItem}
              /\ nextId' = nextId + 1
              /\ lastCall' = storeCall("createMailItem", newItem.userId, validatedData,
                                       <<newItem>>, FALSE, noSnapshot)
              /\ pc' = after("persist")
              /\ UNCHANGED response
           \/ /\ lastCall' = storeCall("createMailItem", newItem.userId, validatedData,
                                       <<>>, TRUE, noSnapshot)
              /\ response' = respond(500, "Failed to create mail item", noItem)
              /\ pc' = "done"
              /\ UNCHANGED <<mailItems, nextId>>
    /\ UNCHANGED <<postFixed, analysisResult, uploads, notification>>

\* await storage.getUser, await sendLetterNotification inside its own try
StepNotify ==
    /\ pc = "notify"
    /\ LET user == getUser(users, request.token.userId)
           newItem == createMailItem(validatedData, nextId, clock)
       IN  notification' = IF user.found
                           THEN sendLetterNotification(user.row, newItem, mailer)
                           ELSE NoNotification
    /\ pc' = after("notify")
    /\ UNCHANGED <<postFixed, analysisResult, mailItems, nextId, lastCall, uploads, response>>

\* res.status(201).json(newItem)
StepRespond ==
    /\ pc = "respond"
    /\ response' = respond(201, "none",
                           IF lastCall.op = "createMailItem" /\ ~lastCall.threw
                           THEN lastCall.rows[1] ELSE noItem)
    /\ pc' = after("respond")
    /\ UNCHANGED <<postFixed, analysisResult, mailItems, nextId, lastCall, uploads,
                   notification>>

NextPostSteps ==
    \/ StepStart
    \/ StepAnalyze
    \/ StepValidate
    \/ StepPersist
    \/ StepNotify
    \/ StepRespond

SpecPostSteps == InitPostSteps /\ [][NextPostSteps]_vars

inserted == lastCall.op = "createMailItem" /\ ~lastCall.threw /\ lastCall.rows[1] \in mailItems

C20_StepsAgreeWithHandler ==
    (pc = "done" /\ ~(lastCall.op = "createMailItem" /\ lastCall.threw)) =>
        LET whole == postMailItem(request.token.userId, request.file, fileName, outcomes,
                                  today, users, mailer, 1, clock)
        IN  /\ response = whole.res
            /\ notification = whole.notified

---------------------------------------------------------------------------
(* The OAuth state map of auth.ts: generateOAuthState and verifyOAuthState   *)

\* Date.now() is counted in ticks of 150 seconds
FiveMinutes == 2
TenMinutes  == 4

\* what Math.random().toString(36).substring(2) can yield
Randoms == {"k3f", "x9q"}

\* generateOAuthState without the sweep of old entries
generateOAuthStateNoSweep(map, random, now) ==
    LET issuedState == <<random, now>>
    IN  [state |-> issuedState,
         map |-> [s \in DOMAIN map \cup {issuedState} |->
                     IF s = issuedState THEN now ELSE map[s]]]

\* generateOAuthState(): the state is a random part followed by Date.now();
\* oauthStates.set(state, {timestamp}), then every entry with
\* timestamp < Date.now() - 10 min is deleted
generateOAuthState(map, random, now) ==
    LET issuedState == <<random, now>>
        written == [s \in DOMAIN map \cup {issuedState} |->
                       IF s = issuedState THEN now ELSE map[s]]
        tenMinutesAgo == now - TenMinutes
        kept == {s \in DOMAIN written : ~(written[s] < tenMinutesAgo)}
    IN  [state |-> issuedState, map |-> [s \in kept |-> written[s]]]

\* oauthStates.delete(state)
mapDelete(map, key) == [s \in DOMAIN map \ {key} |-> map[s]]

\* verifyOAuthState that leaves an accepted state in the map
verifyOAuthStateKeepsAccepted(map, givenState, now) ==
    IF givenState \notin DOMAIN map
    THEN [ok |-> FALSE, map |-> map]
    ELSE IF map[givenState] < now - FiveMinutes
    THEN [ok |-> FALSE, map |-> mapDelete(map, givenState)]
    ELSE [ok |-> TRUE, map |-> map]

\* verifyOAuthState that accepts whatever the map still holds
verifyOAuthStateAnyAge(map, givenState, now) ==
    IF givenState \notin DOMAIN map
    THEN [ok |-> FALSE, map |-> map]
    ELSE [ok |-> TRUE, map |-> mapDelete(map, givenState)]

\* verifyOAuthState(state): false for a state the map does not hold; a state
\* with timestamp < Date.now() - 5 min is deleted and refused; any other is
\* deleted and accepted
verifyOAuthState(map, givenState, now) ==
    IF givenState \notin DOMAIN map
    THEN [ok |-> FALSE, map |-> map]
    ELSE IF map[givenState] < now - FiveMinutes
    THEN [ok |-> FALSE, map |-> mapDelete(map, givenState)]
    ELSE [ok |-> TRUE, map |-> mapDelete(map, givenState)]

---------------------------------------------------------------------------
(* SpecOAuthStates: calls of generateOAuthState and verifyOAuthState in any *)
(* order while Date.now() advances; pc counts, for every state ever         *)
(* returned, how often it was issued and how often it was accepted          *)

MaxTicks  == 5
MaxIssued == 2

\* a state no call of generateOAuthState returns
ForgedState == <<"forged", 0>>

issuedCount(counts, s) == IF s \in DOMAIN counts THEN counts[s].issued ELSE 0

totalIssued(counts) ==
    LET RECURSIVE sum(_)
        sum(S) == IF S = {} THEN 0
                  ELSE LET s == CHOOSE x \in S : TRUE
                       IN  counts[s].issued + sum(S \ {s})
    IN  sum(DOMAIN counts)

countIssued(counts, s) ==
    [x \in DOMAIN counts \cup {s} |->
        IF x = s THEN [issued |-> issuedCount(counts, s) + 1,
                       accepted |-> IF s \in DOMAIN counts
                                    THEN counts[s].accepted ELSE 0]
                 ELSE counts[x]]

countAccepted(counts, s) ==
    [x \in DOMAIN counts \cup {s} |->
        IF x = s THEN [issued |-> issuedCount(counts, s),
                       accepted |-> (IF s \in DOMAIN counts
                                     THEN counts[s].accepted ELSE 0) + 1]
                 ELSE counts[x]]

InitOAuthStates ==
    /\ oauthStates = <<>>
    /\ clock = 0
    /\ pc = <<>>
    /\ lastCall = NoCall
    /\ request = NoRequest
    /\ response = NoResponse
    /\ users = {} /\ userSettings = {}
    /\ mailItems = {} /\ nextId = 1 /\ uploads = {}
    /\ fileName = <<>>
    /\ today = Date(2024, 12, 18)
    /\ FallbackIdle
    /\ AnalyzeIdle
    /\ MailIdle

notOAuthStates ==
    <<inputVars, fallbackVars, analyzeVars, mailVars, mailItems, nextId, uploads,
      users, userSettings, request, response>>

\* Date.now() moves on
StatesTick ==
    /\ clock < MaxTicks
    /\ clock' = clock + 1
    /\ UNCHANGED <<notOAuthStates, oauthVars, pc, lastCall>>

\* a call of generateOAuthState()
GenerateOAuthState ==
    /\ totalIssued(pc) < MaxIssued
    /\ \E random \in Randoms :
        LET issuing == generateOAuthState(oauthStates, random, clock)
        IN  /\ oauthStates' = issuing.map
            /\ pc' = countIssued(pc, issuing.state)
            /\ lastCall' = [op |-> "generateOAuthState", state |-> issuing.state,
                            ok |-> TRUE, before |-> oauthStates, at |-> clock]
    /\ UNCHANGED <<notOAuthStates, clock>>

\* a call of verifyOAuthState(state) with a state that was returned once or
\* with one that never was
VerifyOAuthState ==
    /\ \E givenState \in DOMAIN pc \cup {ForgedState} :
        LET check == verifyOAuthState(oauthStates, givenState, clock)
        IN  /\ oauthStates' = check.map
            /\ pc' = IF check.ok THEN countAccepted(pc, givenState) ELSE pc
            /\ lastCall' = [op |-> "verifyOAuthState", state |-> givenState,
                            ok |-> check.ok, before |-> oauthStates, at |-> clock]
    /\ UNCHANGED <<notOAuthStates, clock>>

NextOAuthStates == StatesTick \/ GenerateOAuthState \/ VerifyOAuthState

SpecOAuthStates == InitOAuthStates /\ [][NextOAuthStates]_vars

---------------------------------------------------------------------------
(* SpecOAuth: sign-in with Google and Apple. Authorizations are initiated   *)
(* and their callbacks arrive, genuine or made up, while Date.now() advances*)

MaxWait           == 2
MaxAuthorizations == 2

\* generateUserId(provider, providerId) for a provider other than "email"
providerUserId(provider, providerId) == provider \o <<"_">> \o providerId

google == <<"g", "o", "o", "g", "l", "e">>
apple  == <<"a", "p", "p", "l", "e">>

\* select from user_settings where user_id = :userId
getUserSettings(table, userId) ==
    IF \E row \in table : row.userId = userId
    THEN foundRow(CHOOSE row \in table : row.userId = userId)
    ELSE undefinedRow

\* the part the two callbacks share: upsertUser, default settings for a user
\* that has none, a token in the auth cookie and the redirect; any throw is
\* caught and redirects to oauth_failed
signInWith(provider, userData, usersTable, settingsTable) ==
    LET upserted == upsertUser(usersTable, userData)
        existingSettings == getUserSettings(settingsTable, userData.id)
        settings == IF existingSettings.found
                    THEN [threw |-> FALSE, table |-> settingsTable]
                    ELSE createUserSettings(settingsTable,
                             [userId |-> userData.id, theme |-> "light"])
    IN  IF upserted.threw
        THEN [res |-> [status |-> 302, to |-> "/?error=oauth_failed", token |-> noToken],
              users |-> usersTable, userSettings |-> settingsTable]
        ELSE IF settings.threw
        THEN [res |-> [status |-> 302, to |-> "/?error=oauth_failed", token |-> noToken],
              users |-> upserted.table, userSettings |-> settingsTable]
        ELSE [res |-> [status |-> 302, to |-> "/?auth=success", provider |-> provider,
                       token |-> generateToken(upserted.user)],
              users |-> upserted.table, userSettings |-> settings.table]

noState == <<>>
noCode  == <<>>

\* handleGoogleCallback: the state of the query is compared with the
\* oauth_state cookie and with nothing else; the code is exchanged for the
\* profile, which names the user
handleGoogleCallback(query, storedState, exchange, map, usersTable, settingsTable) ==
    IF query.error
    THEN [res |-> [status |-> 302, to |-> "/?error=oauth_denied", token |-> noToken],
          users |-> usersTable, userSettings |-> settingsTable, map |-> map,
          verified |-> "not called"]
    ELSE IF query.code = noCode \/ query.state = noState \/ storedState = noState
            \/ query.state # storedState
    THEN [res |-> [status |-> 302, to |-> "/?error=invalid_state", token |-> noToken],
          users |-> usersTable, userSettings |-> settingsTable, map |-> map,
          verified |-> "not called"]
    ELSE IF ~exchange.ok
    THEN [res |-> [status |-> 302, to |-> "/?error=oauth_failed", token |-> noToken],
          users |-> usersTable, userSettings |-> settingsTable, map |-> map,
          verified |-> "not called"]
    ELSE LET userData == [id |-> providerUserId(google, exchange.profile.id),
                          email |-> JsString(exchange.profile.email),
                          firstName |-> JsString(<<"A">>),
                          lastName |-> JsString(<<"L">>),
                          provider |-> "google",
                          emailVerified |-> exchange.profile.verified_email]
             done == signInWith("google", userData, usersTable, settingsTable)
         IN  [res |-> done.res, users |-> done.users,
              userSettings |-> done.userSettings, map |-> map,
              verified |-> "not called"]

\* handleAppleCallback: !code || !state || !verifyOAuthState(state) answers
\* 400, and verifyOAuthState runs only when code and state are both there;
\* the user is named by the code, its email by the posted user JSON
handleAppleCallback(body, now, map, usersTable, settingsTable) ==
    IF body.code = noCode \/ body.state = noState
    THEN [res |-> [status |-> 400, to |-> "", token |-> noToken],
          users |-> usersTable, userSettings |-> settingsTable, map |-> map,
          verified |-> "not called"]
    ELSE LET check == verifyOAuthState(map, body.state, now)
             named == [id |-> providerUserId(apple, body.code),
                       provider |-> "apple",
                       emailVerified |-> TRUE]
             userData == IF ~body.user.given
                         THEN named
                         ELSE named @@ [email |-> JsString(body.user.email),
                                        firstName |-> JsString(<<"A">>),
                                        lastName |-> JsString(<<"L">>)]
             done == signInWith("apple", userData, usersTable, settingsTable)
         IN  IF ~check.ok
             THEN [res |-> [status |-> 400, to |-> "", token |-> noToken],
                   users |-> usersTable, userSettings |-> settingsTable,
                   map |-> check.map, verified |-> "rejected"]
             ELSE [res |-> done.res, users |-> done.users,
                   userSettings |-> done.userSettings, map |-> check.map,
                   verified |-> "accepted"]

code1 == <<"c", "1">>

GoogleExchanges ==
    {[ok |-> FALSE],
     [ok |-> TRUE, profile |-> [id |-> <<"7">>, email |-> a_at_b_c,
                                verified_email |-> TRUE]]}

AppleUsers == {[given |-> FALSE], [given |-> TRUE, email |-> a_at_b_c]}

\* an authorization on its way: the state its redirect carries, the cookie
\* the browser was handed, and what its callback did once it was handled
authorization(provider, issuedState, storedState) ==
    [provider |-> provider, state |-> issuedState, cookie |-> storedState,
     handled |-> FALSE, signedIn |-> FALSE, verified |-> "not called",
     inMap |-> TRUE]

handledAs(auth, done) ==
    [auth EXCEPT !.handled = TRUE,
                 !.signedIn = done.res.to = "/?auth=success",
                 !.verified = done.verified,
                 !.inMap = auth.state \in DOMAIN done.map]

InitOAuth ==
    /\ oauthStates = <<>>
    /\ clock = 0
    /\ pc = <<>>
    /\ users = {}
    /\ userSettings = {}
    /\ request = NoRequest
    /\ response = NoResponse
    /\ lastCall = NoCall
    /\ mailItems = {} /\ nextId = 1 /\ uploads = {}
    /\ fileName = <<>>
    /\ today = Date(2024, 12, 18)
    /\ FallbackIdle
    /\ AnalyzeIdle
    /\ MailIdle

notOAuth ==
    <<inputVars, fallbackVars, analyzeVars, mailVars, mailItems, nextId, uploads>>

\* Date.now() moves on
OAuthTick ==
    /\ clock < MaxWait
    /\ clock' = clock + 1
    /\ UNCHANGED <<notOAuth, oauthVars, pc, users, userSettings, request,
                   response, lastCall>>

\* initiateGoogleAuth: 500 when the credentials are missing, else a state is
\* issued, put into the oauth_state cookie and sent along with the redirect
initiateGoogleAuth(configured, random, now, map) ==
    LET issuing == generateOAuthState(map, random, now)
    IN  IF ~configured
        THEN [res |-> [status |-> 500, to |-> "", token |-> noToken],
              map |-> map, state |-> noState, cookie |-> noState]
        ELSE [res |-> [status |-> 302, to |-> "accounts.google.com",
                       token |-> noToken],
              map |-> issuing.map, state |-> issuing.state,
              cookie |-> issuing.state]

\* initiateAppleAuth: the same without a cookie
initiateAppleAuth(configured, random, now, map) ==
    LET issuing == generateOAuthState(map, random, now)
    IN  IF ~configured
        THEN [res |-> [status |-> 500, to |-> "", token |-> noToken],
              map |-> map, state |-> noState, cookie |-> noState]
        ELSE [res |-> [status |-> 302, to |-> "appleid.apple.com",
                       token |-> noToken],
              map |-> issuing.map, state |-> issuing.state,
              cookie |-> noState]

\* GET /api/auth/google
InitiateGoogleAuth ==
    /\ Len(pc) < MaxAuthorizations
    /\ \E configured \in BOOLEAN, random \in Randoms :
        LET done == initiateGoogleAuth(configured, random, clock, oauthStates)
        IN  /\ request' = [route |-> "GET /api/auth/google"]
            /\ response' = done.res
            /\ oauthStates' = done.map
            /\ pc' = IF done.state = noState THEN pc
                     ELSE Append(pc, authorization("google", done.state,
                                                   done.cookie))
    /\ UNCHANGED <<notOAuth, clock, users, userSettings, lastCall>>

\* GET /api/auth/apple
InitiateAppleAuth ==
    /\ Len(pc) < MaxAuthorizations
    /\ \E configured \in BOOLEAN, random \in Randoms :
        LET done == initiateAppleAuth(configured, random, clock, oauthStates)
        IN  /\ request' = [route |-> "GET /api/auth/apple"]
            /\ response' = done.res
            /\ oauthStates' = done.map
            /\ pc' = IF done.state = noState THEN pc
                     ELSE Append(pc, authorization("apple", done.state,
                                                   done.cookie))
    /\ UNCHANGED <<notOAuth, clock, users, userSettings, lastCall>>

\* GET /api/auth/google/callback: the callback of authorization i comes
\* from the browser that holds its cookie; origin 0 is a request of someone
\* who made up both the state and the cookie
HandleGoogleCallback ==
    /\ \E i \in 0..Len(pc), denied \in BOOLEAN, code \in {noCode, code1},
          exchange \in GoogleExchanges :
        LET genuine == i > 0
            query == [error |-> denied, code |-> code,
                      state |-> IF genuine THEN pc[i].state ELSE ForgedState]
            storedState == IF genuine THEN pc[i].cookie ELSE ForgedState
            done == handleGoogleCallback(query, storedState, exchange,
                                         oauthStates, users, userSettings)
        IN  /\ genuine => pc[i].provider = "google"
            /\ request' = [route |-> "GET /api/auth/google/callback"]
            /\ response' = done.res
            /\ users' = done.users
            /\ userSettings' = done.userSettings
            /\ oauthStates' = done.map
            /\ pc' = IF genuine THEN [pc EXCEPT ![i] = handledAs(pc[i], done)]
                                ELSE pc
    /\ UNCHANGED <<notOAuth, clock, lastCall>>

\* POST /api/auth/apple/callback: the posted state is the one of
\* authorization i, whichever provider it was issued for, or made up
HandleAppleCallback ==
    /\ \E i \in 0..Len(pc), code \in {noCode, code1}, user \in AppleUsers :
        LET body == [code |-> code, user |-> user,
                     state |-> IF i > 0 THEN pc[i].state ELSE ForgedState]
            done == handleAppleCallback(body, clock, oauthStates, users,
                                        userSettings)
            genuine == i > 0 /\ pc[i].provider = "apple"
        IN  /\ request' = [route |-> "POST /api/auth/apple/callback",
                           query |-> body, origin |-> i]
            /\ response' = done.res
            /\ users' = done.users
            /\ userSettings' = done.userSettings
            /\ oauthStates' = done.map
            /\ pc' = IF genuine THEN [pc EXCEPT ![i] = handledAs(pc[i], done)]
                                ELSE pc
    /\ UNCHANGED <<notOAuth, clock, lastCall>>

NextOAuth ==
    \/ OAuthTick
    \/ InitiateGoogleAuth
    \/ InitiateAppleAuth
    \/ HandleGoogleCallback
    \/ HandleAppleCallback

SpecOAuth == InitOAuth /\ [][NextOAuth]_vars

---------------------------------------------------------------------------
(* email-providers and email-config-service: the SMTP provider of an        *)
(* address and the automatic setup                                          *)

\* email.split('@')[1]: what stands between the first "@" and the next one,
\* undefined (here the empty text) when there is no "@"
secondPiece(address) ==
    IF \A i \in DOMAIN address : address[i] # "@"
    THEN <<>>
    ELSE LET first == CHOOSE i \in DOMAIN address :
                          /\ address[i] = "@"
                          /\ \A j \in 1..(i - 1) : address[j] # "@"
             rest == SubSeq(address, first + 1, Len(address))
             stop == IF \A i \in DOMAIN rest : rest[i] # "@"
                     THEN Len(rest) + 1
                     ELSE CHOOSE i \in DOMAIN rest :
                              /\ rest[i] = "@"
                              /\ \A j \in 1..(i - 1) : rest[j] # "@"
         IN  SubSeq(rest, 1, stop - 1)

noProvider == [name |-> "none", authType |-> "none", host |-> "none"]

\* detectEmailProvider(email): the entry of EMAIL_PROVIDERS for the
\* lower-cased domain, null for any other domain
detectEmailProvider(address) ==
    LET domain == toLowerCase(secondPiece(address))
    IN  IF domain \in {<<"g", "m", "a", "i", "l", ".", "c", "o", "m">>,
                      <<"g", "o", "o", "g", "l", "e", "m", "a", "i", "l", ".", "c", "o", "m">>}
        THEN [name |-> "Gmail", authType |-> "app-password",
              host |-> "smtp.gmail.com"]
        ELSE IF domain \in {<<"o", "u", "t", "l", "o", "o", "k", ".", "c", "o", "m">>,
                      <<"h", "o", "t", "m", "a", "i", "l", ".", "c", "o", "m">>,
                      <<"l", "i", "v", "e", ".", "c", "o", "m">>}
        THEN [name |-> "Outlook/Hotmail", authType |-> "password",
              host |-> "smtp-mail.outlook.com"]
        ELSE IF domain \in {<<"y", "a", "h", "o", "o", ".", "c", "o", "m">>,
                      <<"y", "m", "a", "i", "l", ".", "c", "o", "m">>}
        THEN [name |-> "Yahoo Mail", authType |-> "app-password",
              host |-> "smtp.mail.yahoo.com"]
        ELSE IF domain \in {<<"i", "c", "l", "o", "u", "d", ".", "c", "o", "m">>,
                      <<"m", "e", ".", "c", "o", "m">>,
                      <<"m", "a", "c", ".", "c", "o", "m">>}
        THEN [name |-> "iCloud Mail", authType |-> "app-password",
              host |-> "smtp.mail.me.com"]
        ELSE noProvider

noConfig == [host |-> "none"]

\* attemptAutoEmailSetup(user, password): fails without an address, for a
\* provider that is unknown or wants an app password, without a password,
\* and when transporter.verify() rejects; the config of a success names
\* host, port, secure and the address, and no password
attemptAutoEmailSetup(user, password, verify) ==
    LET provider == IF truthy(user.email) THEN detectEmailProvider(user.email.v)
                                          ELSE noProvider
        canAutoSetup == provider # noProvider /\ provider.authType # "app-password"
    IN  IF ~canAutoSetup
        THEN [success |-> FALSE, message |-> "instructions", config |-> noConfig]
        ELSE IF password = <<>>
        THEN [success |-> FALSE, message |-> "Password required",
              config |-> noConfig]
        ELSE IF verify # "ok"
        THEN [success |-> FALSE, message |-> "Automatic setup failed",
              config |-> noConfig]
        ELSE [success |-> TRUE, message |-> "Email configured automatically",
              config |-> [host |-> provider.host, port |-> 587, secure |-> FALSE,
                          user |-> user.email.v]]

\* POST /api/email/auto-setup behind authenticateToken: a success is saved
\* with storage.updateUserSettings(userId, {emailConfig, emailNotifications})
postAutoSetup(userId, password, verify, usersTable, settingsTable) ==
    LET user == getUser(usersTable, userId)
        result == attemptAutoEmailSetup(user.row, password, verify)
        saved == updateUserSettings(settingsTable, userId,
                     [emailConfig |-> result.config, emailNotifications |-> TRUE])
    IN  IF ~user.found
        THEN [res |-> [status |-> 404, success |-> FALSE, config |-> noConfig],
              userSettings |-> settingsTable]
        ELSE [res |-> [status |-> 200, success |-> result.success,
                       config |-> result.config],
              userSettings |-> IF result.success THEN saved.table
                                                 ELSE settingsTable]

---------------------------------------------------------------------------
(* SpecSettings: GET /api/profile, PUT /api/settings, POST                  *)
(* /api/email/auto-setup and POST /api/mail-items by two signed-in users;   *)
(* pc tells for which of them an automatic setup has succeeded              *)

a_at_outlook == <<"a", "@">> \o <<"o", "u", "t", "l", "o", "o", "k", ".", "c", "o", "m">>

a_at_gmail == <<"a", "@">> \o <<"g", "m", "a", "i", "l", ".", "c", "o", "m">>

\* the settings GET /api/profile answers with when the user has no row
profileDefaults ==
    [theme |-> "system", language |-> "en", timezone |-> "UTC",
     emailNotifications |-> TRUE, reminderNotifications |-> TRUE,
     weeklyDigest |-> FALSE, autoDeleteOldItems |-> FALSE]

\* GET /api/profile behind authenticateToken: reads the user and the
\* settings and answers; writes nothing
getProfile(userId, usersTable, settingsTable) ==
    LET user == getUser(usersTable, userId)
        settings == getUserSettings(settingsTable, userId)
    IN  IF ~user.found
        THEN [res |-> [status |-> 404, settings |-> <<>>],
              userSettings |-> settingsTable]
        ELSE [res |-> [status |-> 200,
                       settings |-> IF settings.found THEN settings.row
                                                      ELSE profileDefaults],
              userSettings |-> settingsTable]

\* updateSettingsSchema: every key optional, theme one of three
updateSettingsSchemaOk(body) ==
    "theme" \in DOMAIN body => body.theme \in {"light", "dark", "system"}

\* PUT /api/settings behind authenticateToken: 400 for an invalid body; a
\* user without a row gets one with the defaults; then the row is updated
putSettings(userId, body, settingsTable) ==
    LET settings == getUserSettings(settingsTable, userId)
        created == IF settings.found
                   THEN [threw |-> FALSE, table |-> settingsTable]
                   ELSE createUserSettings(settingsTable,
                            [userId |-> userId] @@ profileDefaults)
        updatedSettings == updateUserSettings(created.table, userId, body)
    IN  IF ~updateSettingsSchemaOk(body)
        THEN [res |-> [status |-> 400, settings |-> <<>>],
              userSettings |-> settingsTable]
        ELSE IF created.threw \/ ~updatedSettings.found
        THEN [res |-> [status |-> 500, settings |-> <<>>],
              userSettings |-> created.table]
        ELSE [res |-> [status |-> 200, settings |-> updatedSettings.row],
              userSettings |-> updatedSettings.table]

SettingsBodies ==
    {<<>>, [theme |-> "dark"], [theme |-> "neon"]}

SettingsUsers ==
    {{userRow("u1", e), userRow("u2", JsNull)} :
        e \in {JsNull, JsString(a_at_b_c), JsString(a_at_outlook),
               JsString(a_at_gmail)}}

SettingsMailers ==
    {mail \in MailOutcomes :
        /\ mail.fileExists /\ mail.sendMail = "ok"
        /\ (mail.SMTP_USER = "") = (mail.SMTP_PASS = "")}

InitSettings ==
    /\ users \in SettingsUsers
    /\ userSettings \in SUBSET {defaultSettings(u) : u \in Callers}
    /\ mailer \in SettingsMailers
    /\ pc = [u \in Callers |-> "idle"]
    /\ request = NoRequest
    /\ response = NoResponse
    /\ lastCall = NoCall
    /\ notification = NoNotification
    /\ mailItems = {} /\ nextId = 1 /\ clock = 1 /\ uploads = {}
    /\ fileName = letter_jpg
    /\ today = Date(2024, 12, 18)
    /\ OAuthIdle
    /\ FallbackIdle
    /\ AnalyzeIdle

notSettings ==
    <<today, oauthVars, fallbackVars, analyzeVars, fileName, users, mailer, clock>>

\* GET /api/profile
GetProfile ==
    /\ \E u \in Callers :
        LET auth == authenticateToken(tokenOf(u), users)
            done == getProfile(auth.userId, users, userSettings)
        IN  /\ auth.next
            /\ request' = [route |-> "GET /api/profile", token |-> tokenOf(u)]
            /\ response' = done.res
            /\ userSettings' = done.userSettings
            /\ lastCall' = [op |-> "getUserSettings", userId |-> u,
                            before |-> userSettings]
    /\ UNCHANGED <<notSettings, pc, notification, mailItems, nextId, uploads>>

\* PUT /api/settings
PutSettings ==
    /\ \E u \in Callers, body \in SettingsBodies :
        LET auth == authenticateToken(tokenOf(u), users)
            done == putSettings(auth.userId, body, userSettings)
        IN  /\ auth.next
            /\ request' = [route |-> "PUT /api/settings", token |-> tokenOf(u),
                           body |-> body]
            /\ response' = done.res
            /\ userSettings' = done.userSettings
            /\ lastCall' = [op |-> "updateUserSettings", userId |-> u,
                            before |-> userSettings]
    /\ UNCHANGED <<notSettings, pc, notification, mailItems, nextId, uploads>>

\* POST /api/email/auto-setup
PostAutoSetup ==
    /\ \E u \in Callers, password \in {<<>>, <<"p", "w">>},
          verify \in {"ok", "EAUTH"} :
        LET auth == authenticateToken(tokenOf(u), users)
            done == postAutoSetup(auth.userId, password, verify, users,
                                  userSettings)
        IN  /\ auth.next
            /\ request' = [route |-> "POST /api/email/auto-setup",
                           token |-> tokenOf(u)]
            /\ response' = done.res
            /\ userSettings' = done.userSettings
            /\ pc' = IF done.res.success THEN [pc EXCEPT ![u] = "configured"]
                                         ELSE pc
            /\ lastCall' = [op |-> "updateUserSettings", userId |-> u,
                            before |-> userSettings]
    /\ UNCHANGED <<notSettings, notification, mailItems, nextId, uploads>>

\* POST /api/mail-items with a file; lastCall keeps the credentials
\* createTransporter read for the notification
UploadAndNotify ==
    /\ nextId <= MaxItems
    /\ \E u \in Callers :
        LET auth == authenticateToken(tokenOf(u), users)
            done == postMailItem(auth.userId, "accepted", fileName, someEnv,
                                 today, users, mailer, nextId, clock)
            user == getUser(users, auth.userId)
        IN  /\ auth.next
            /\ request' = uploadRequest(tokenOf(u), "accepted")
            /\ response' = done.res
            /\ uploads' = writeFile(uploads, uniqueName(fileName, clock), u)
            /\ mailItems' = IF done.created THEN mailItems \cup {done.res.item}
                                            ELSE mailItems
            /\ nextId' = IF done.created THEN nextId + 1 ELSE nextId
            /\ notification' = done.notified
            /\ lastCall' = IF done.created /\ truthy(user.row.email)
                           THEN [op |-> "createTransporter", userId |-> u,
                                 config |-> getEmailConfig(user.row, mailer),
                                 before |-> userSettings]
                           ELSE NoCall
    /\ UNCHANGED <<notSettings, pc, userSettings>>

NextSettings == GetProfile \/ PutSettings \/ PostAutoSetup \/ UploadAndNotify

SpecSettings == InitSettings /\ [][NextSettings]_vars

---------------------------------------------------------------------------
(* SpecIdentity: accounts come and go. Email registration and login, the    *)
(* Google and Apple callbacks, profile update, password change and account  *)
(* deletion in any order; pc keeps the users a token was issued to and the  *)
(* users deleted since, whose tokens are still around                       *)

\* bcrypt.compare(password, hash)
comparePassword(password, hash) ==
    \E salt \in Salts : hash = bcryptHash(password, salt)

\* authenticateEmailUser(email, password): null unless the address belongs
\* to a user of provider "email" with a password hash that matches
authenticateEmailUser(email, password, usersTable) ==
    LET user == getUserByEmail(usersTable, email)
    IN  IF ~user.found
        THEN [ok |-> FALSE, user |-> noUser, token |-> noToken]
        ELSE IF user.row.provider # "email" \/ ~truthy(user.row.passwordHash)
        THEN [ok |-> FALSE, user |-> noUser, token |-> noToken]
        ELSE IF ~comparePassword(password, user.row.passwordHash)
        THEN [ok |-> FALSE, user |-> noUser, token |-> noToken]
        ELSE [ok |-> TRUE, user |-> user.row, token |-> generateToken(user.row)]

\* POST /api/auth/login: emailLoginSchema, authenticateEmailUser, the cookie
postLogin(body, usersTable) ==
    LET result == authenticateEmailUser(body.email, body.password, usersTable)
    IN  IF ~isEmail(body.email) \/ Len(body.password) < 1
        THEN accountResponse(400, "Invalid input data", noUser, noToken)
        ELSE IF ~result.ok
        THEN accountResponse(401, "Invalid credentials", noUser, noToken)
        ELSE accountResponse(200, "none", result.user, result.token)

\* update users set password_hash = :hashedPassword where id = :userId
changeUserPassword(table, userId, hashedPassword) ==
    [changed |-> \E u \in table : u.id = userId,
     table |-> {IF u.id = userId THEN [u EXCEPT !.passwordHash = hashedPassword]
                                 ELSE u : u \in table}]

\* changePasswordSchema
changePasswordSchemaOk(body) ==
    /\ Len(body.currentPassword) >= 1
    /\ Len(body.newPassword) >= 8
    /\ Len(body.confirmPassword) >= 1
    /\ body.newPassword = body.confirmPassword

\* a password change that asks neither for a password hash nor for the
\* current password
putPasswordUnguarded(userId, body, salt, usersTable) ==
    LET done == changeUserPassword(usersTable, userId,
                                   bcryptHash(body.newPassword, salt))
    IN  [res |-> accountResponse(200, "none", noUser, noToken),
         users |-> done.table]

\* PUT /api/profile/password behind authenticateToken
putPassword(userId, body, salt, usersTable) ==
    LET user == getUser(usersTable, userId)
        done == changeUserPassword(usersTable, userId,
                                   bcryptHash(body.newPassword, salt))
    IN  IF ~changePasswordSchemaOk(body)
        THEN [res |-> accountResponse(400, "Validation failed", noUser, noToken),
              users |-> usersTable]
        ELSE IF ~user.found
        THEN [res |-> accountResponse(400, "Password change not available for OAuth users",
                                      noUser, noToken),
              users |-> usersTable]
        ELSE IF ~truthy(user.row.passwordHash)
        THEN [res |-> accountResponse(400, "Password change not available for OAuth users",
                                      noUser, noToken),
              users |-> usersTable]
        ELSE IF ~comparePassword(body.currentPassword, user.row.passwordHash)
        THEN [res |-> accountResponse(400, "Current password is incorrect",
                                      noUser, noToken),
              users |-> usersTable]
        ELSE IF ~done.changed
        THEN [res |-> accountResponse(500, "Failed to update password", noUser, noToken),
              users |-> done.table]
        ELSE [res |-> accountResponse(200, "none", noUser, noToken),
              users |-> done.table]

\* DELETE /api/account behind authenticateToken
deleteAccount(userId, confirmDelete, tables) ==
    LET deleted == deleteUserAccount(tables, userId)
    IN  IF confirmDelete # "DELETE"
        THEN [res |-> accountResponse(400, "Account deletion requires confirmation",
                                      noUser, noToken),
              tables |-> tables]
        ELSE IF deleted.users = tables.users
        THEN [res |-> accountResponse(500, "Failed to delete account", noUser, noToken),
              tables |-> deleted]
        ELSE [res |-> accountResponse(200, "none", noUser, noToken),
              tables |-> deleted]

IdentityBodies ==
    {[email |-> e, password |-> password1, firstName |-> <<"A">>,
      lastName |-> <<"L">>] : e \in {a_at_b_c, a_dot_b}}

LoginBodies ==
    {[email |-> e, password |-> pw] :
        e \in {a_at_b_c, a_dot_b}, pw \in {password1, password2}}

PasswordBodies ==
    {[currentPassword |-> password1, newPassword |-> new, confirmPassword |-> confirm] :
        new \in {password2, tooShort}, confirm \in {password2, tooShort}}

\* one salt and one random part are enough here
IdentitySalts == {"s1"}

IdentityRandoms == {"k3f"}

noSessions == [issued |-> {}, revoked |-> {}]

\* the sessions after a response: a token in it was issued to its user
issuedBy(sessions, res) ==
    IF res.token = noToken THEN sessions
    ELSE [sessions EXCEPT !.issued = @ \cup {res.token.userId}]

InitIdentity ==
    /\ users = {}
    /\ userSettings = {}
    /\ oauthStates = <<>>
    /\ pc = noSessions
    /\ request = NoRequest
    /\ response = NoResponse
    /\ lastCall = NoCall
    /\ mailItems = {} /\ nextId = 1 /\ clock = 1 /\ uploads = {}
    /\ fileName = <<>>
    /\ today = Date(2024, 12, 18)
    /\ FallbackIdle
    /\ AnalyzeIdle
    /\ MailIdle

notIdentity ==
    <<inputVars, fallbackVars, analyzeVars, mailVars, mailItems, nextId, clock,
      uploads, lastCall>>

\* POST /api/auth/register
RegisterAccount ==
    /\ \E body \in IdentityBodies, salt \in IdentitySalts :
        LET done == postRegister(body, salt, users, userSettings)
        IN  /\ request' = [route |-> "POST /api/auth/register", token |-> noToken,
                           old |-> FALSE]
            /\ response' = done.res
            /\ users' = done.users
            /\ userSettings' = done.userSettings
            /\ pc' = issuedBy(pc, done.res)
    /\ UNCHANGED <<notIdentity, oauthVars>>

\* POST /api/auth/login
LoginAccount ==
    /\ \E body \in LoginBodies :
        LET res == postLogin(body, users)
        IN  /\ request' = [route |-> "POST /api/auth/login", token |-> noToken,
                           old |-> FALSE]
            /\ response' = res
            /\ pc' = issuedBy(pc, res)
    /\ UNCHANGED <<notIdentity, oauthVars, users, userSettings>>

\* GET /api/auth/apple
AppleAuthorization ==
    /\ \E random \in IdentityRandoms :
        LET done == initiateAppleAuth(TRUE, random, clock, oauthStates)
        IN  /\ request' = [route |-> "GET /api/auth/apple", token |-> noToken,
                           old |-> FALSE]
            /\ response' = accountResponse(302, "none", noUser, noToken)
            /\ oauthStates' = done.map
    /\ UNCHANGED <<notIdentity, users, userSettings, pc>>

\* POST /api/auth/apple/callback with a state that is in the map or not
AppleSignIn ==
    /\ \E givenState \in DOMAIN oauthStates \cup {ForgedState},
          user \in AppleUsers :
        LET body == [code |-> code1, user |-> user, state |-> givenState]
            done == handleAppleCallback(body, clock, oauthStates, users,
                                        userSettings)
            res == accountResponse(done.res.status, done.res.to, noUser,
                                   done.res.token)
        IN  /\ request' = [route |-> "POST /api/auth/apple/callback",
                           token |-> noToken, old |-> FALSE]
            /\ response' = res
            /\ users' = done.users
            /\ userSettings' = done.userSettings
            /\ oauthStates' = done.map
            /\ pc' = issuedBy(pc, res)
    /\ UNCHANGED notIdentity

\* GET /api/auth/google/callback from a browser whose cookie matches
GoogleSignIn ==
    /\ \E exchange \in GoogleExchanges :
        LET query == [error |-> FALSE, code |-> code1, state |-> ForgedState]
            done == handleGoogleCallback(query, ForgedState, exchange,
                                         oauthStates, users, userSettings)
            res == accountResponse(done.res.status, done.res.to, noUser,
                                   done.res.token)
        IN  /\ request' = [route |-> "GET /api/auth/google/callback",
                           token |-> noToken, old |-> FALSE]
            /\ response' = res
            /\ users' = done.users
            /\ userSettings' = done.userSettings
            /\ pc' = issuedBy(pc, res)
    /\ UNCHANGED <<notIdentity, oauthVars>>

\* PUT /api/profile by a signed-in user
UpdateProfile ==
    /\ \E u \in users :
        LET body == [email |-> a_under_b, firstName |-> <<"A">>, lastName |-> <<"L">>]
            auth == authenticateToken(tokenOf(u.id), users)
            done == putProfile(auth.userId, body, users)
        IN  /\ auth.next
            /\ request' = [route |-> "PUT /api/profile", token |-> tokenOf(u.id),
                           old |-> FALSE]
            /\ response' = done.res
            /\ users' = done.users
    /\ UNCHANGED <<notIdentity, oauthVars, userSettings, pc>>

\* PUT /api/profile/password by a signed-in user
ChangePassword ==
    /\ \E u \in users, body \in PasswordBodies, salt \in IdentitySalts :
        LET auth == authenticateToken(tokenOf(u.id), users)
            done == putPassword(auth.userId, body, salt, users)
        IN  /\ auth.next
            /\ request' = [route |-> "PUT /api/profile/password",
                           token |-> tokenOf(u.id), old |-> FALSE]
            /\ response' = done.res
            /\ users' = done.users
    /\ UNCHANGED <<notIdentity, oauthVars, userSettings, pc>>

\* DELETE /api/account by a signed-in user; the tokens issued to that user
\* stay with whoever holds them
DeleteAccount ==
    /\ \E u \in users, confirmDelete \in {"DELETE", "yes"} :
        LET auth == authenticateToken(tokenOf(u.id), users)
            done == deleteAccount(auth.userId, confirmDelete, tablesNow)
        IN  /\ auth.next
            /\ request' = [route |-> "DELETE /api/account", token |-> tokenOf(u.id),
                           old |-> FALSE]
            /\ response' = done.res
            /\ users' = done.tables.users
            /\ userSettings' = done.tables.userSettings
            /\ pc' = IF done.res.status = 200
                     THEN [pc EXCEPT !.revoked = @ \cup {u.id}]
                     ELSE pc
    /\ UNCHANGED <<notIdentity, oauthVars>>

\* GET /api/profile with a token that was issued to a user before that
\* user's account was deleted
ProfileWithOldToken ==
    /\ \E id \in pc.revoked :
        LET auth == authenticateToken(tokenOf(id), users)
            done == getProfile(auth.userId, users, userSettings)
        IN  /\ request' = [route |-> "GET /api/profile", token |-> tokenOf(id),
                           old |-> TRUE]
            /\ response' = IF auth.next
                           THEN accountResponse(done.res.status, "none",
                                                getUser(users, auth.userId).row,
                                                noToken)
                           ELSE accountResponse(auth.status, auth.error, noUser,
                                                noToken)
    /\ UNCHANGED <<notIdentity, oauthVars, users, userSettings, pc>>

NextIdentity ==
    \/ RegisterAccount
    \/ LoginAccount
    \/ AppleAuthorization
    \/ AppleSignIn
    \/ GoogleSignIn
    \/ UpdateProfile
    \/ ChangePassword
    \/ DeleteAccount
    \/ ProfileWithOldToken

SpecIdentity == InitIdentity /\ [][NextIdentity]_vars

---------------------------------------------------------------------------
(* Properties of DatabaseStorage checked on SpecStore (C11 - C14)           *)

\* C11: after deleteUserAccount(u) succeeds, no MailItem row and no
\* UserSettings row with userId = u exists, and the user records, mail items
\* and settings of every other user are unchanged.
C11_DeleteAccountCascades ==
    (lastCall.op = "deleteUserAccount"
        /\ \E u \in lastCall.before.users : u.id = lastCall.userId) =>
        /\ \A r \in mailItems : r.userId # lastCall.userId
        /\ \A r \in userSettings : r.userId # lastCall.userId
        /\ users = {u \in lastCall.before.users : u.id # lastCall.userId}
        /\ mailItems = {r \in lastCall.before.mailItems : r.userId # lastCall.userId}
        /\ userSettings =
                {r \in lastCall.before.userSettings : r.userId # lastCall.userId}

\* the deleted user owned a mail item and settings, and so does the other user
C11_Witness ==
    /\ lastCall.op = "deleteUserAccount"
    /\ \E r \in lastCall.before.mailItems : r.userId = lastCall.userId
    /\ \E r \in lastCall.before.userSettings : r.userId = lastCall.userId
    /\ \E r \in mailItems : r.userId # lastCall.userId
    /\ userSettings # {}

\* the last call was an update or a delete aimed at an id that no row of the
\* caller had
missedRow ==
    /\ lastCall.op \in {"updateMailItem", "deleteMailItem"}
    /\ lastCall.before.taken
    /\ ~getMailItem(lastCall.before.mailItems, lastCall.arg.id, lastCall.userId).found

\* C12: updateMailItem(id, u, updates) and deleteMailItem(id, u) applied to a
\* row whose userId differs from u, or to an id that does not exist, return
\* not-found (undefined / false, no exception) and leave every stored row
\* unchanged.
C12_MissedRowIsNotFound ==
    missedRow =>
        /\ ~lastCall.threw
        /\ lastCall.rows = <<>>
        /\ mailItems = lastCall.before.mailItems
        /\ users = lastCall.before.users
        /\ userSettings = lastCall.before.userSettings

\* the part of C12 the code keeps: whatever the call answers, no stored row
\* changes
C12_MissedRowChangesNothing ==
    missedRow =>
        /\ lastCall.rows = <<>>
        /\ mailItems = lastCall.before.mailItems
        /\ users = lastCall.before.users
        /\ userSettings = lastCall.before.userSettings

\* a caller aimed at a row of somebody else
C12_Witness ==
    /\ missedRow
    /\ \E r \in mailItems : r.id = lastCall.arg.id /\ r.userId # lastCall.userId

\* q occurs in the column, case-insensitively, as a literal substring
containsLiterally(column, q) ==
    /\ column.t = "string"
    /\ includes(toLowerCase(column.v), toLowerCase(q))

\* C13: searchMailItems(q, u) returns exactly the rows owned by u in which q
\* occurs, case-insensitively, as a literal substring of title, summary,
\* category or extractedText; a row without extractedText is matched on the
\* other three only.
C13_SearchIsLiteralSubstring ==
    lastCall.op = "searchMailItems" =>
        {lastCall.rows[i] : i \in DOMAIN lastCall.rows} =
            {r \in mailItems :
                /\ r.userId = lastCall.userId
                /\ \/ containsLiterally(r.title, lastCall.arg)
                   \/ containsLiterally(r.summary, lastCall.arg)
                   \/ containsLiterally(JsString(categoryText[r.category]), lastCall.arg)
                   \/ containsLiterally(r.extractedText, lastCall.arg)}

\* the fields of a payload that createMailItem stores
PayloadFields ==
    {"title", "summary", "category", "reminderDate", "imageUrl", "fileName",
     "extractedText"}

\* getMailItem(id of the row just created, payload.userId)
readBack == getMailItem(mailItems, lastCall.rows[1].id, lastCall.arg.userId)

\* the id and the upload date are the service's: the payload has none, the id
\* is no other row's
assignedByService(row) ==
    /\ {"id", "uploadDate"} \cap DOMAIN lastCall.arg = {}
    /\ row.uploadDate = lastCall.rows[1].uploadDate
    /\ \A r \in mailItems : r.id = row.id => r = row

\* C14: createMailItem(payload) followed by getMailItem(returned id,
\* payload.userId) returns a record whose title, summary, category,
\* reminderDate, imageUrl, fileName and extractedText equal the payload's, with
\* id and uploadDate assigned by the service (payloads as the upload route
\* builds them: reminderDate and extractedText are never left out).
C14_CreateThenGetReturnsPayload ==
    (lastCall.op = "createMailItem" /\ ~lastCall.threw) =>
        /\ readBack.found
        /\ \A f \in PayloadFields : readBack.row[f] = lastCall.arg[f]
        /\ assignedByService(readBack.row)

\* a payload with a transcription was created next to an older row
C14_Witness ==
    /\ lastCall.op = "createMailItem"
    /\ ~lastCall.threw
    /\ lastCall.arg.extractedText.t = "string"
    /\ readBack.found
    /\ readBack.row.extractedText = lastCall.arg.extractedText
    /\ Cardinality(mailItems) > 1

---------------------------------------------------------------------------
(* Properties of the mail item routes checked on SpecApi (C16)               *)

\* C16: PATCH /api/mail-items/:id changes only the editable fields (title,
\* summary, category, reminder date) of the caller's own item; whatever the
\* body contains, the item's id, userId and uploadDate are unchanged.
C16_PatchKeepsIdOwnerAndDate ==
    (request.route = "PATCH /api/mail-items/:id" /\ response.status = 200) =>
        /\ lastCall.before[1].userId = lastCall.userId
        /\ lastCall.rows[1].id = lastCall.before[1].id
        /\ lastCall.rows[1].userId = lastCall.before[1].userId
        /\ lastCall.rows[1].uploadDate = lastCall.before[1].uploadDate
        /\ lastCall.rows[1] \in mailItems

---------------------------------------------------------------------------
(* Properties of the analyzer checked on SpecAnalyze (C18, C19)              *)

issued(name) ==
    \E i \in DOMAIN analysisResult.out.calls : analysisResult.out.calls[i] = name

\* the OCR call answered, with no text or with white space only
ocrTextIsEmpty ==
    /\ outcomes.ocr.ok
    /\ \/ outcomes.ocr.content.t # "string"
       \/ trim(outcomes.ocr.content.v) = <<>>

\* C18: for a PDF the filename-only classification call is issued exactly
\* when rasterizing page 1 fails; when rasterization succeeds and the OCR
\* call, the classification call or the parsing of its JSON fails, the
\* analyzer returns the deterministic fallback without any further external
\* call.
C18_FilenameCallOnlyAfterFailedRasterization ==
    (analysisResult.done /\ isPdf(fileName)) =>
        /\ issued("byName") <=> outcomes.convert # "ok"
        /\ (outcomes.convert = "ok" /\ analysisResult.out.via # "pdfOcr") =>
                analysisResult.out.via = "fallback"

\* C19: when the OCR call returns empty or near-empty text, the analyzer
\* treats it as a transcription failure and returns the fallback output
\* instead of classifying the empty text.
C19_EmptyTranscriptionFallsBack ==
    (analysisResult.done /\ ocrTextIsEmpty
        /\ (IF isPdf(fileName) THEN outcomes.convert = "ok"
            ELSE outcomes.readFile = "ok")) =>
        /\ ~issued("classify")
        /\ analysisResult.out.via = "fallback"

---------------------------------------------------------------------------
(* Properties of one upload checked on SpecPostSteps (C21)                   *)

\* how often a call occurs in a sequence of calls
timesIssued(calls, name) == Cardinality({i \in DOMAIN calls : calls[i] = name})

---------------------------------------------------------------------------
(* Properties of the analyzer checked on SpecAnalyze (C22)                   *)

\* the classification response the result was built from
usedResponse ==
    IF analysisResult.out.via = "pdfByName" THEN completionJson(outcomes.byName).obj
    ELSE completionJson(outcomes.classify).obj

\* the response names one of the seven categories
namesCategory(obj) ==
    /\ obj.category.t = "string"
    /\ \E c \in validCategories : obj.category.v = <<c>>

\* C22: the category of every analyzer result is one of bill, appointment,
\* personal, promotional, government, insurance, nhs: when the classification
\* response carries no category or one outside this set the result's category
\* is personal, and the result's categories list is the one-element list
\* holding that same category.
C22_CategoryIsOneOfSeven ==
    analysisResult.done =>
        LET result == analysisResult.out.result
        IN  /\ result.category \in validCategories
            /\ result.categories = <<result.category>>
            /\ analysisResult.out.via \in {"image", "pdfOcr", "pdfByName"} =>
                    IF namesCategory(usedResponse)
                    THEN usedResponse.category.v = <<result.category>>
                    ELSE result.category = "personal"

\* a response whose category is a string outside the set
C22_Witness ==
    /\ analysisResult.done
    /\ analysisResult.out.via = "image"
    /\ usedResponse.category = JsString(<<"spam">>)
    /\ analysisResult.out.result.category = "personal"
    /\ analysisResult.out.result.categories = <<"personal">>

---------------------------------------------------------------------------
(* Properties of the sign-in callbacks checked on SpecOAuth (C23)           *)

\* C23: once the callback of an initiated authorization, Google's as well
\* as Apple's, has signed the user in, the state issued for that
\* authorization was checked against the map oauthStates and is no longer
\* in it.
C23_CallbackChecksAndDeletesState ==
    \A i \in DOMAIN pc :
        (pc[i].handled /\ pc[i].signedIn) =>
            /\ pc[i].verified # "not called"
            /\ ~pc[i].inMap

---------------------------------------------------------------------------
(* Properties of the state map checked on SpecOAuthStates (C24 - C26)       *)

\* C24: verifyOAuthState accepts a state only if generateOAuthState issued
\* it and the map still holds it, no state is accepted more often than it
\* was issued, and right after a verification of a state, accepted or not,
\* another verification of that state returns false at any later time.
C24_AcceptedOnceAndOnlyIfIssued ==
    /\ \A s \in DOMAIN pc : pc[s].accepted <= pc[s].issued
    /\ DOMAIN oauthStates \subseteq DOMAIN pc
    /\ lastCall.op = "verifyOAuthState" =>
        /\ lastCall.ok => /\ lastCall.state \in DOMAIN lastCall.before
                          /\ issuedCount(pc, lastCall.state) > 0
        /\ issuedCount(pc, lastCall.state) = 0 => ~lastCall.ok
        /\ \A later \in clock..MaxTicks :
               ~verifyOAuthState(oauthStates, lastCall.state, later).ok

\* a state was issued, accepted, and then presented again and refused
C24_Witness ==
    /\ lastCall.op = "verifyOAuthState"
    /\ ~lastCall.ok
    /\ lastCall.state \in DOMAIN pc
    /\ pc[lastCall.state].accepted = 1
    /\ pc[lastCall.state].issued = 1

\* the age, at the time of the last call, of a state the map held before it
ageBefore(verification) == verification.at - verification.before[verification.state]

\* C25: verifyOAuthState accepts only a state issued at most five minutes
\* earlier; a state the map holds that is older than five minutes is
\* refused, and that verification removes it from the map.
C25_RefusesAndRemovesAfterFiveMinutes ==
    lastCall.op = "verifyOAuthState" =>
        /\ lastCall.ok => ageBefore(lastCall) <= FiveMinutes
        /\ (lastCall.state \in DOMAIN lastCall.before
                /\ ageBefore(lastCall) > FiveMinutes) =>
               /\ ~lastCall.ok
               /\ lastCall.state \notin DOMAIN oauthStates

\* a state between five and ten minutes old was in the map and was refused
C25_Witness ==
    /\ lastCall.op = "verifyOAuthState"
    /\ lastCall.state \in DOMAIN lastCall.before
    /\ ageBefore(lastCall) > FiveMinutes
    /\ ageBefore(lastCall) <= TenMinutes
    /\ ~lastCall.ok
    /\ lastCall.state \notin DOMAIN oauthStates

\* C26: right after a call of generateOAuthState the map holds the state
\* the call returned and no entry written more than ten minutes before the
\* call.
C26_MapAfterGenerate ==
    lastCall.op = "generateOAuthState" =>
        /\ lastCall.state \in DOMAIN oauthStates
        /\ \A s \in DOMAIN oauthStates :
               lastCall.at - oauthStates[s] <= TenMinutes

\* the call found an entry older than ten minutes and one exactly ten
\* minutes old is something it keeps
C26_Witness ==
    /\ lastCall.op = "generateOAuthState"
    /\ \E s \in DOMAIN lastCall.before :
           lastCall.at - lastCall.before[s] > TenMinutes
    /\ lastCall.state \in DOMAIN oauthStates

---------------------------------------------------------------------------
(* Properties of the settings routes checked on SpecSettings (C27, C28)     *)

\* SMTP_USER and SMTP_PASS of the process
processDefaults(mail) == [user |-> mail.SMTP_USER, pass |-> mail.SMTP_PASS]

\* C27: when POST /api/email/auto-setup has succeeded for a user and that
\* user then uploads a letter, the transporter of the notification is
\* created with credentials stored for the user by the setup and not with
\* SMTP_USER and SMTP_PASS of the process.
C27_NotificationUsesStoredConfig ==
    (lastCall.op = "createTransporter" /\ pc[lastCall.userId] = "configured") =>
        lastCall.config # processDefaults(mailer)

\* C28: when a user has no row in user_settings, GET /api/profile and
\* PUT /api/settings, once they have answered 200, leave a row for that
\* user, and no user ever has more than one row.
C28_FirstAccessCreatesSettings ==
    /\ \A u \in Callers : Cardinality({row \in userSettings : row.userId = u}) <= 1
    /\ (request.route \in {"GET /api/profile", "PUT /api/settings"}
           /\ response.status = 200) =>
           getUserSettings(userSettings, request.token.userId).found

---------------------------------------------------------------------------
(* Properties of the accounts checked on SpecIdentity (C29, C30)            *)

\* C29: whatever registrations, logins, Google and Apple callbacks, profile
\* updates and password changes have happened, a row of users has a
\* password hash exactly if its provider is "email".
C29_PasswordHashIffEmailProvider ==
    \A u \in users : truthy(u.passwordHash) <=> u.provider = "email"

\* users of all three providers exist and a password was just changed
C29_Witness ==
    /\ \E u \in users : u.provider = "email"
    /\ \E u \in users : u.provider = "google"
    /\ \E u \in users : u.provider = "apple"
    /\ request.route = "PUT /api/profile/password"
    /\ response.status = 200

\* C30: a request that carries a token issued to a user before DELETE
\* /api/account succeeded for that user is answered 401 by
\* authenticateToken, whatever happened in between.
C30_OldTokenIsRejected ==
    (request.route = "GET /api/profile" /\ request.old) =>
        /\ response.status = 401
        /\ response.user = noUser

=============================================================================
